---- MODULE Spec2Model ----
(***************************************************************************)
(* firebase-storage-lite: the upload task (UploadTask.js) that sends a     *)
(* blob either with one multipart request or with a resumable session of   *)
(* chunk requests, together with the transport it talks to.                *)
(*                                                                         *)
(* A run is one invocation of UploadTask.start().  The fields of the task  *)
(* (uploadURL, granularity, offset) belong to the task; the request in     *)
(* flight, the slice it carries and the promise start() returned belong to *)
(* the run.  The server and the network are the environment: every reply   *)
(* is drawn from the replies a server can give to the request.             *)
(***************************************************************************)
EXTENDS Integers, Sequences, FiniteSets, TLC

\* ------------------------------------------------------------------------
\* Program constants and the bounds of the model
\* ------------------------------------------------------------------------

\* `if (this.blob.size < 5000000)` in UploadTask.start
SimpleUploadLimit == 5000000

\* The chunk granularity the test server hands out (256 KiB).
ChunkUnit == 262144

\* Blob sizes at and above the limit: SimpleUploadLimit + d and
\* (FirstBigUnits + d) * ChunkUnit, for d in 0..MaxOver.
MaxOver == 1

\* The server offers granularities k * ChunkUnit, k in 1..MaxUnits.
MaxUnits == 4

\* The least number of whole units that make a resumable blob.
FirstBigUnits == (SimpleUploadLimit + ChunkUnit - 1) \div ChunkUnit

MaxBlobSize == (FirstBigUnits + MaxOver) * ChunkUnit

BlobSizes ==
    {0, 1, SimpleUploadLimit - 1}
        \cup {SimpleUploadLimit + d : d \in 0..MaxOver}
        \cup {(FirstBigUnits + d) * ChunkUnit : d \in 0..MaxOver}

\* The request log keeps this many requests; later ones are sent but not
\* logged.  A session that the server completes on its finalize request
\* needs at most MaxBlobSize \div ChunkUnit + 2 requests.
LogLimit == (MaxBlobSize \div ChunkUnit) + 4

\* One start() per task is the documented use; the second run is the
\* caller invoking start() again.
Runs == {"first", "second"}

\* ------------------------------------------------------------------------
\* JavaScript values
\* ------------------------------------------------------------------------

Num(n) == [kind |-> "num", val |-> n]
NaN == [kind |-> "nan", val |-> 0]
Undefined == [kind |-> "undefined", val |-> 0]

IsNum(a) == a.kind = "num"

\* a + b on numbers; undefined converts to NaN
JsAdd(a, b) == IF IsNum(a) /\ IsNum(b) THEN Num(a.val + b.val) ELSE NaN

\* a - b
JsSub(a, b) == IF IsNum(a) /\ IsNum(b) THEN Num(a.val - b.val) ELSE NaN

\* a < b and a > b: false as soon as one side is NaN
JsLess(a, b) == IsNum(a) /\ IsNum(b) /\ a.val < b.val
JsGreater(a, b) == IsNum(a) /\ IsNum(b) /\ a.val > b.val

\* A response header: absent (Headers.get gives null), a text that is no
\* number, or the decimal text of n.
AbsentHeader == [kind |-> "absent", n |-> 0]
TextHeader == [kind |-> "text", n |-> 0]
NumberHeader(n) == [kind |-> "number", n |-> n]

\* Number(headers.get(...)): Number(null) is 0, Number("abc") is NaN
Number(h) ==
    CASE h.kind = "absent" -> Num(0)
      [] h.kind = "text" -> NaN
      [] OTHER -> Num(h.n)

\* Response bodies, as texts.
Bodies == {"{}", "{\"all\":\"good\"}", "Not Found"}

\* response.json(): the parsed document as a set of <<key, value>> pairs,
\* or a SyntaxError when the text is no JSON document.
JSONParse(text) ==
    CASE text = "{}" -> [valid |-> TRUE, value |-> {}]
      [] text = "{\"all\":\"good\"}" -> [valid |-> TRUE, value |-> {<<"all", "good">>}]
      [] OTHER -> [valid |-> FALSE, value |-> {}]

\* MockBlob.slice(start = 0, end = this.size): the size of the slice
BlobSlice(size, start, end) ==
    LET s == IF start.kind = "undefined" THEN Num(0) ELSE start
        e0 == IF end.kind = "undefined" THEN Num(size) ELSE end
        e == IF JsGreater(e0, Num(size)) THEN Num(size) ELSE e0
    IN  JsSub(e, s)

\* ------------------------------------------------------------------------
\* Requests, replies and settlement values
\* ------------------------------------------------------------------------

\* baseURL + objectToQuery({ name: metadata.name })
ObjectURL == "https://firebasestorage.googleapis.com/v0/b/bucket/o?name=name"

\* The upload URL of the test server, and what a missing header reads as.
SessionURL == "http://google.com/uploadUrl"
NullURL == "null"
URLHeaders == {SessionURL, NullURL}

GranularityHeaders ==
    {AbsentHeader, TextHeader}
        \cup {NumberHeader(k * ChunkUnit) : k \in 1..MaxUnits}
        \cup {NumberHeader(MaxBlobSize + ChunkUnit)}

NoRequest ==
    [kind |-> "none", run |-> "", url |-> "", protocol |-> "", command |-> "",
     offset |-> Undefined, size |-> Undefined, authorized |-> FALSE]

NoReply ==
    [net |-> "none", ok |-> FALSE, status |-> "", url |-> "",
     granularity |-> AbsentHeader, body |-> ""]

\* fetch rejected: no response at all
NetworkError ==
    [net |-> "error", ok |-> FALSE, status |-> "", url |-> "",
     granularity |-> AbsentHeader, body |-> ""]

\* What a server can answer to the session start, to a chunk and to a
\* simple upload.
SessionReplies ==
    {[net |-> "response", ok |-> o, status |-> "", url |-> u, granularity |-> g, body |-> ""] :
        o \in BOOLEAN, u \in URLHeaders, g \in GranularityHeaders}

ChunkReplies ==
    {[net |-> "response", ok |-> o, status |-> s, url |-> "",
      granularity |-> AbsentHeader, body |-> b] :
        o \in BOOLEAN, s \in {"final", "active"}, b \in Bodies}

SimpleReplies ==
    {[net |-> "response", ok |-> o, status |-> "", url |-> "",
      granularity |-> AbsentHeader, body |-> b] :
        o \in BOOLEAN, b \in Bodies}

\* What a promise settles with.
NoValue == [tag |-> "none", json |-> {}, text |-> ""]
JsonValue(v) == [tag |-> "json", json |-> v, text |-> ""]
TextValue(t) == [tag |-> "text", json |-> {}, text |-> t]
ErrorValue(name) == [tag |-> "error", json |-> {}, text |-> name]

\* The promise start() returns: not created, pending, fulfilled, rejected.
NoPromise == [state |-> "none", value |-> NoValue]
PendingPromise == [state |-> "pending", value |-> NoValue]

\* What a then-handler leaves behind: how it settles the run's promise (or
\* "none"), the new this.offset, and whether it called resumeUpload again.
Outcome(settle, value, offset, again) ==
    [settle |-> settle, value |-> value, offset |-> offset, again |-> again]

\* `return await response.json()`
ReturnJSON(response, offset) ==
    LET parsed == JSONParse(response.body)
    IN  IF parsed.valid
        THEN Outcome("fulfilled", JsonValue(parsed.value), offset, FALSE)
        ELSE Outcome("rejected", ErrorValue("SyntaxError"), offset, FALSE)

\* `throw await response.text()`
ThrowText(response, offset) ==
    Outcome("rejected", TextValue(response.body), offset, FALSE)

\* ------------------------------------------------------------------------
\* UploadTask
\* ------------------------------------------------------------------------

\* The limit taken one byte too low: a blob of 4,999,999 bytes would go the
\* resumable way.
UseSimpleUploadBelow(size) == size + 1 < SimpleUploadLimit

\* The limit taken inclusive: a blob of exactly 5,000,000 bytes would go
\* the simple way.
UseSimpleUploadInclusive(size) == size <= SimpleUploadLimit

\* start(): `this.blob.size < 5000000`
UseSimpleUpload(size) == size < SimpleUploadLimit

\* authorizedFetch: auth.authorizeRequest(request) when the task has an auth
authorizedFetch(request, hasAuth) == [request EXCEPT !.authorized = hasAuth]

\* simpleUpload(): the multipart request
simpleUploadRequest(run, size) ==
    [kind |-> "simple", run |-> run, url |-> ObjectURL, protocol |-> "multipart",
     command |-> "", offset |-> Undefined, size |-> Num(size), authorized |-> FALSE]

\* The handler without the check of response.ok.
simpleUploadThenUnchecked(response) ==
    ReturnJSON(response, Undefined)

\* simpleUpload(): the handler of the response
simpleUploadThen(response) ==
    IF ~response.ok
    THEN ThrowText(response, Undefined)
    ELSE ReturnJSON(response, Undefined)

\* startResumableUpload(): the session-start request
startResumableUploadRequest(run, size) ==
    [kind |-> "start", run |-> run, url |-> ObjectURL, protocol |-> "resumable",
     command |-> "start", offset |-> Undefined, size |-> Num(size), authorized |-> FALSE]

\* The slice taken up to `granularity` instead of `offset + granularity`.
currentChunkToGranularity(size, offset, granularity) ==
    BlobSlice(size, offset, granularity)

\* resumeUpload(): `blob.slice(offset, offset + granularity)`
currentChunk(size, offset, granularity) ==
    BlobSlice(size, offset, JsAdd(offset, granularity))

\* The last chunk told with <= instead of <: a full slice counts as last.
isLastChunkInclusive(chunk, granularity) ==
    IsNum(chunk) /\ IsNum(granularity) /\ chunk.val <= granularity.val

\* resumeUpload(): `currentChunk.size < granularity`
isLastChunk(chunk, granularity) == JsLess(chunk, granularity)

\* resumeUpload(): `isLastChunk ? 'upload, finalize' : 'upload'`
UploadCommand(last) == IF last THEN "upload, finalize" ELSE "upload"

\* resumeUpload(): the chunk request
resumeUploadRequest(run, size, url, granularity, offset) ==
    LET chunk == currentChunk(size, offset, granularity)
    IN  [kind |-> "chunk", run |-> run, url |-> url, protocol |-> "",
         command |-> UploadCommand(isLastChunk(chunk, granularity)),
         offset |-> offset, size |-> chunk, authorized |-> FALSE]

\* The handler that goes on after the final status: it resolves, and then
\* advances the offset and calls resumeUpload() all the same.
resumeUploadThenGoesOn(response, chunk, offset) ==
    IF ~response.ok
    THEN ThrowText(response, offset)
    ELSE IF response.status = "final" /\ JSONParse(response.body).valid
         THEN Outcome("fulfilled", JsonValue(JSONParse(response.body).value),
                      JsAdd(offset, chunk), TRUE)
         ELSE Outcome("none", NoValue, JsAdd(offset, chunk), TRUE)

\* The handler that advances the offset before it looks at the status: the
\* offset moves on the final response too.
resumeUploadThenAdvanceFirst(response, chunk, offset) ==
    IF ~response.ok
    THEN ThrowText(response, offset)
    ELSE IF response.status = "final"
         THEN ReturnJSON(response, JsAdd(offset, chunk))
         ELSE Outcome("none", NoValue, JsAdd(offset, chunk), TRUE)

\* The handler that calls resumeUpload() again without advancing the offset.
resumeUploadThenNoAdvance(response, chunk, offset) ==
    IF ~response.ok
    THEN ThrowText(response, offset)
    ELSE IF response.status = "final"
         THEN ReturnJSON(response, offset)
         ELSE Outcome("none", NoValue, offset, TRUE)

\* The handler that looks at the status before it looks at response.ok.
resumeUploadThenStatusFirst(response, chunk, offset) ==
    IF response.status = "final"
    THEN ReturnJSON(response, offset)
    ELSE IF ~response.ok
         THEN ThrowText(response, offset)
         ELSE Outcome("none", NoValue, JsAdd(offset, chunk), TRUE)

\* resumeUpload(): the handler of a chunk response; chunk is the size of the
\* slice the request carried, offset is this.offset
resumeUploadThen(response, chunk, offset) ==
    IF ~response.ok
    THEN ThrowText(response, offset)
    ELSE IF response.status = "final"
         THEN ReturnJSON(response, offset)
         ELSE Outcome("none", NoValue, JsAdd(offset, chunk), TRUE)

\* startResumableUpload(): what it saves from the headers of the response
\* to the session start
sessionFields(response) ==
    [uploadURL |-> response.url,
     granularity |-> Number(response.granularity),
     offset |-> Num(0)]

\* The rejected fetch() caught, and resumeUpload() called again.
fetchRejectedRetries(offset) ==
    Outcome("none", NoValue, offset, TRUE)

\* fetch() rejected: the promise chain rejects with the error of the
\* transport and no handler runs
fetchRejected(offset) ==
    Outcome("rejected", ErrorValue("NetworkError"), offset, FALSE)

\* ------------------------------------------------------------------------
\* Task instances
\* ------------------------------------------------------------------------

\* Two UploadTask instances alive at once.
Tasks == {"taskA", "taskB"}

\* Fields kept in one place for every instance (as on the prototype, or in
\* a variable of the module).
SharedThis(t) == "taskA"

\* `this` in a method called on instance t, and in the handlers it
\* registers: the instance itself.
This(t) == t

\* constructor: the fields of a new instance; uploadURL, granularity and
\* offset are not assigned yet
NewTask(size, auth) ==
    [blob |-> size, auth |-> auth, uploadURL |-> "undefined",
     granularity |-> Undefined, offset |-> Undefined]

\* The promise chain of start() on an instance: the request it awaits and
\* the promise start() returned.
NewChain == [pending |-> NoRequest, promise |-> NoPromise]

\* ------------------------------------------------------------------------
\* The self-starting iterable UploadTask: construction
\* ------------------------------------------------------------------------

\* The consumers that iterate the task.
Consumers == {"c1", "c2"}

\* A promise of init() or next(), as held in this.chunk: its state, the
\* {done, value: {offset, total}} it is fulfilled with, and who awaits it, in the
\* order of their await.
PendingChunk(waiters) ==
    [state |-> "pending", done |-> FALSE, offset |-> Undefined, total |-> Undefined,
     waiters |-> waiters]

\* init(), up to its await: the session-start request
initRequest(size) ==
    [kind |-> "start", command |-> "start", offset |-> Undefined, size |-> Num(size)]

NoFetch == [kind |-> "none", command |-> "", offset |-> Undefined, size |-> Undefined]

\* A consumer: "eager" is a for-await loop with a synchronous body, begun on
\* the new task; "lazy" calls next() of the iterator whenever it likes.
NewConsumer(mode) ==
    [mode |-> mode, at |-> IF mode = "eager" THEN "waiting" ELSE "idle",
     on |-> 0, late |-> FALSE, seen |-> <<>>]

\* constructor: offset 0, the promise _p, and start() run up to its first
\* await: this.chunk = this.init() with the session-start request sent and
\* start() awaiting this.chunk.  A for-await loop on the new task has called
\* next() of the iterator once and awaits this.chunk after start().
NewIterable(size, modes) ==
    [blob |-> size,
     uploadURL |-> "undefined",
     granularity |-> Undefined,
     offset |-> Num(0),
     chunk |-> 0,
     results |-> <<PendingChunk(<<"start">>
                                 \o (IF modes["c1"] = "eager" THEN <<"c1">> ELSE <<>>)
                                 \o (IF modes["c2"] = "eager" THEN <<"c2">> ELSE <<>>))>>,
     fetching |-> initRequest(size),
     requests |-> <<initRequest(size)>>,
     jobs |-> <<>>,
     loop |-> "running",
     p |-> PendingPromise,
     resCalls |-> 0,
     rejCalls |-> 0,
     handlers |-> <<>>,
     consumers |-> [c \in Consumers |-> NewConsumer(modes[c])]]

\* No function of Reference or utils.js has been called.
NoCall == [fn |-> "none", arg |-> <<>>, result |-> <<>>]

\* ------------------------------------------------------------------------
\* State
\* ------------------------------------------------------------------------

VARIABLES
    blobSize,       \* this.blob.size
    hasAuth,        \* the task was given an auth with authorizeRequest
    uploadURL,      \* this.uploadURL
    granularity,    \* this.granularity
    offset,         \* this.offset
    pending,        \* per run: the request awaiting its response
    promise,        \* per run: the promise start() returned
    settles,        \* per run: how often its handlers returned or threw
    lastReply,      \* per run: the last response it received
    calls,          \* the fetch log: requests in order, with their replies
    tasks,          \* two further instances: their fields and promise chains
    iter,           \* an instance of the self-starting iterable UploadTask
    applied         \* the last call of a function of utils.js or Reference

vars ==
    <<blobSize, hasAuth, uploadURL, granularity, offset,
      pending, promise, settles, lastReply, calls, tasks, iter, applied>>

NoPending == [req |-> NoRequest, at |-> 0]

\* What the log keeps of a reply.
Logged(reply) == [net |-> reply.net, ok |-> reply.ok, status |-> reply.status]

LogRequest(log, request) ==
    IF Len(log) < LogLimit
    THEN Append(log, [req |-> request, replied |-> FALSE, reply |-> Logged(NoReply)])
    ELSE log

LogReply(log, at, reply) ==
    IF at = 0
    THEN log
    ELSE [log EXCEPT ![at] = [req |-> log[at].req, replied |-> TRUE, reply |-> Logged(reply)]]

InFlight(log, request) ==
    [req |-> request, at |-> IF Len(log) < LogLimit THEN Len(log) + 1 ELSE 0]

\* A promise settles once; a later return or throw leaves it as it is.
Settle(p, outcome) ==
    IF outcome.settle = "none" \/ p.state # "pending"
    THEN p
    ELSE [state |-> outcome.settle, value |-> outcome.value]

Init ==
    /\ blobSize \in BlobSizes
    /\ hasAuth \in BOOLEAN
    /\ uploadURL = "undefined"
    /\ granularity = Undefined
    /\ offset = Undefined
    /\ pending = [r \in Runs |-> NoPending]
    /\ promise = [r \in Runs |-> NoPromise]
    /\ settles = [r \in Runs |-> 0]
    /\ lastReply = [r \in Runs |-> NoReply]
    /\ calls = <<>>
    /\ tasks = [this |-> [t \in Tasks |-> NewTask(0, FALSE)],
                chain |-> [t \in Tasks |-> NewChain]]
    /\ iter = NewIterable(0, [c \in Consumers |-> "lazy"])
    /\ applied = NoCall

\* ------------------------------------------------------------------------
\* Operations
\* ------------------------------------------------------------------------

\* start(), up to the first await: the multipart request of simpleUpload()
\* or the session start of startResumableUpload()
start(r) ==
    /\ promise[r].state = "none"
    /\ LET request ==
               authorizedFetch(
                   IF UseSimpleUpload(blobSize)
                   THEN simpleUploadRequest(r, blobSize)
                   ELSE startResumableUploadRequest(r, blobSize),
                   hasAuth)
       IN  /\ pending' = [pending EXCEPT ![r] = InFlight(calls, request)]
           /\ calls' = LogRequest(calls, request)
    /\ promise' = [promise EXCEPT ![r] = PendingPromise]
    /\ UNCHANGED <<blobSize, hasAuth, uploadURL, granularity, offset, settles, lastReply, tasks, iter, applied>>

\* simpleUpload(): the response to the multipart request arrives
simpleUploadResponse(r) ==
    /\ pending[r].req.kind = "simple"
    /\ \E response \in SimpleReplies \cup {NetworkError} :
          LET out == IF response.net = "error"
                     THEN fetchRejected(offset)
                     ELSE simpleUploadThen(response)
          IN  /\ promise' = [promise EXCEPT ![r] = Settle(@, out)]
              /\ settles' = [settles EXCEPT ![r] = @ + 1]
              /\ lastReply' = [lastReply EXCEPT ![r] = response]
              /\ calls' = LogReply(calls, pending[r].at, response)
    /\ pending' = [pending EXCEPT ![r] = NoPending]
    /\ UNCHANGED <<blobSize, hasAuth, uploadURL, granularity, offset, tasks, iter, applied>>

\* startResumableUpload(): the response to the session start arrives; the
\* fields are saved and resumeUpload() sends the first chunk
startResumableUploadResponse(r) ==
    /\ pending[r].req.kind = "start"
    /\ \E response \in SessionReplies \cup {NetworkError} :
          /\ lastReply' = [lastReply EXCEPT ![r] = response]
          /\ IF response.net = "error"
             THEN /\ promise' = [promise EXCEPT ![r] = Settle(@, fetchRejected(offset))]
                  /\ settles' = [settles EXCEPT ![r] = @ + 1]
                  /\ pending' = [pending EXCEPT ![r] = NoPending]
                  /\ calls' = LogReply(calls, pending[r].at, response)
                  /\ UNCHANGED <<uploadURL, granularity, offset>>
             ELSE LET saved == sessionFields(response)
                      request ==
                          authorizedFetch(
                              resumeUploadRequest(r, blobSize, saved.uploadURL,
                                                  saved.granularity, saved.offset),
                              hasAuth)
                      log == LogReply(calls, pending[r].at, response)
                  IN  /\ uploadURL' = saved.uploadURL
                      /\ granularity' = saved.granularity
                      /\ offset' = saved.offset
                      /\ pending' = [pending EXCEPT ![r] = InFlight(log, request)]
                      /\ calls' = LogRequest(log, request)
                      /\ UNCHANGED <<promise, settles>>
    /\ UNCHANGED <<blobSize, hasAuth, tasks, iter, applied>>

\* resumeUpload(): the response to a chunk request arrives; the handler
\* throws, returns the metadata, or advances this.offset and calls
\* resumeUpload() again, which sends the next chunk
resumeUploadResponse(r) ==
    /\ pending[r].req.kind = "chunk"
    /\ \E response \in ChunkReplies \cup {NetworkError} :
          LET out == IF response.net = "error"
                     THEN fetchRejected(offset)
                     ELSE resumeUploadThen(response, pending[r].req.size, offset)
              request ==
                  authorizedFetch(
                      resumeUploadRequest(r, blobSize, uploadURL, granularity, out.offset),
                      hasAuth)
              log == LogReply(calls, pending[r].at, response)
          IN  /\ lastReply' = [lastReply EXCEPT ![r] = response]
              /\ offset' = out.offset
              /\ promise' = [promise EXCEPT ![r] = Settle(@, out)]
              /\ settles' = [settles EXCEPT ![r] = IF out.settle = "none" THEN @ ELSE @ + 1]
              /\ IF out.again
                 THEN /\ pending' = [pending EXCEPT ![r] = InFlight(log, request)]
                      /\ calls' = LogRequest(log, request)
                 ELSE /\ pending' = [pending EXCEPT ![r] = NoPending]
                      /\ calls' = log
    /\ UNCHANGED <<blobSize, hasAuth, uploadURL, granularity, tasks, iter, applied>>

\* The task as its README documents it: the caller invokes start() once.
Next ==
    \/ start("first")
    \/ simpleUploadResponse("first")
    \/ startResumableUploadResponse("first")
    \/ resumeUploadResponse("first")

Spec == Init /\ [][Next]_vars

\* The event loop runs every handler whose response has arrived, and the
\* transport answers every request.
FairSpec == Spec /\ WF_vars(Next)

\* ------------------------------------------------------------------------
\* Reading the log
\* ------------------------------------------------------------------------

Min(a, b) == IF a < b THEN a ELSE b
Ceil(a, b) == (a + b - 1) \div b

Requests == DOMAIN calls
ChunkRequests == {i \in Requests : calls[i].req.kind = "chunk"}

\* The chunk requests sent before the one at i: chunk request i is number
\* ChunkNumber(i), counted from 0.
ChunkNumber(i) == Cardinality({j \in ChunkRequests : j < i})

\* The bytes of the slices of the chunk requests sent before the one at i.
RECURSIVE SentBefore(_)
SentBefore(i) ==
    IF i <= 1
    THEN Num(0)
    ELSE IF calls[i - 1].req.kind = "chunk"
         THEN JsAdd(SentBefore(i - 1), calls[i - 1].req.size)
         ELSE SentBefore(i - 1)

\* Every request sent so far is in the log.
LogComplete == Len(calls) < LogLimit

Answered(i) == calls[i].replied /\ calls[i].reply.net = "response"
NotOk(i) == Answered(i) /\ ~calls[i].reply.ok

Settled(r) == promise[r].state \in {"fulfilled", "rejected"}

\* The session-start response set a granularity that is a positive number.
ValidGranularity == IsNum(granularity) /\ granularity.val > 0
InvalidGranularity == granularity.kind # "undefined" /\ ~ValidGranularity

\* Every reply so far was an ok response.
AllOk ==
    /\ LogComplete
    /\ \A i \in Requests : calls[i].replied => (Answered(i) /\ calls[i].reply.ok)

\* The server answered final to the requests carrying 'upload, finalize'
\* and to no other.
FinalExactlyOnFinalize ==
    /\ LogComplete
    /\ \A i \in ChunkRequests :
          Answered(i) =>
              ((calls[i].reply.status = "final") <=> (calls[i].req.command = "upload, finalize"))

\* The run received an ok response with status final.
GotFinal(r) ==
    /\ lastReply[r].net = "response"
    /\ lastReply[r].ok
    /\ lastReply[r].status = "final"

\* ------------------------------------------------------------------------
\* C1
\* ------------------------------------------------------------------------

\* C1: for a blob smaller than 5,000,000 bytes a started start() has issued
\* exactly one request, that request carries X-Goog-Upload-Protocol:
\* multipart, and no session-start or chunk request is issued, in flight or
\* logged, in any state of the task.
C1_SimpleUploadOneRequest ==
    blobSize < SimpleUploadLimit =>
        /\ \A i \in Requests :
              /\ calls[i].req.kind = "simple"
              /\ calls[i].req.protocol = "multipart"
        /\ pending["first"].req.kind \in {"none", "simple"}
        /\ promise["first"].state = "none" => Len(calls) = 0
        /\ promise["first"].state # "none" => Len(calls) = 1

C1_Witness ==
    /\ blobSize = SimpleUploadLimit - 1
    /\ promise["first"].state = "fulfilled"
    /\ Len(calls) = 1
    /\ calls[1].req.protocol = "multipart"

\* ------------------------------------------------------------------------
\* C2
\* ------------------------------------------------------------------------

\* C2: for a blob of 5,000,000 bytes or more the first request of a started
\* start() is the session start (protocol resumable, command start), and a
\* chunk request exists or is in flight only once the response to the
\* session start has been received.
C2_SessionStartFirst ==
    blobSize >= SimpleUploadLimit =>
        /\ promise["first"].state # "none" =>
              /\ Len(calls) >= 1
              /\ calls[1].req.kind = "start"
              /\ calls[1].req.protocol = "resumable"
              /\ calls[1].req.command = "start"
        /\ \A i \in ChunkRequests : i > 1 /\ Answered(1)
        /\ pending["first"].req.kind = "chunk" => Answered(1)
        /\ \A i \in Requests : i > 1 => calls[i].req.kind = "chunk"

C2_Witness ==
    /\ blobSize = SimpleUploadLimit
    /\ Len(calls) >= 2
    /\ calls[1].req.command = "start"
    /\ calls[2].req.kind = "chunk"

\* ------------------------------------------------------------------------
\* C3
\* ------------------------------------------------------------------------

\* The session of the first run is over: it got its final response and has
\* nothing in flight.
SessionComplete ==
    /\ GotFinal("first")
    /\ pending["first"] = NoPending

\* C3 as stated: with a granularity g > 0, only ok responses and final
\* answered exactly to the finalize request, a finished session has sent
\* ceil(size / g) chunk requests.
C3_ChunkCountIsCeil ==
    (SessionComplete /\ ValidGranularity /\ AllOk /\ FinalExactlyOnFinalize) =>
        Cardinality(ChunkRequests) = Ceil(blobSize, granularity.val)

\* C3, amended: with an integer granularity g > 0, only ok responses and final
\* answered exactly to the finalize request, a finished session has sent
\* floor(size / g) + 1 chunk requests: one per full slice of g bytes and one
\* more, carrying the remaining bytes (none when g divides the size).
C3_ChunkCountIsFloorPlusOne ==
    (SessionComplete /\ ValidGranularity /\ AllOk /\ FinalExactlyOnFinalize) =>
        Cardinality(ChunkRequests) = (blobSize \div granularity.val) + 1

C3_Witness ==
    /\ SessionComplete
    /\ AllOk
    /\ FinalExactlyOnFinalize
    /\ blobSize = FirstBigUnits * ChunkUnit
    /\ granularity = Num(ChunkUnit)
    /\ Cardinality(ChunkRequests) = FirstBigUnits + 1

\* ------------------------------------------------------------------------
\* C4
\* ------------------------------------------------------------------------

\* The chunk requests before the last one carry 'upload', the last one
\* carries 'upload, finalize'.
OneFinalizeAtTheEnd ==
    \A i \in ChunkRequests :
        calls[i].req.command =
            (IF \E j \in ChunkRequests : j > i THEN "upload" ELSE "upload, finalize")

\* C4 as stated: in every completed resumable upload whose responses were
\* all ok, the last chunk request carries 'upload, finalize' and all before
\* it carry 'upload'.  (Stated for sessions with a granularity g > 0, where
\* the task does send a finalize request.)
C4_LastIsFinalize ==
    (promise["first"].state = "fulfilled" /\ ChunkRequests # {} /\ AllOk
        /\ ValidGranularity) =>
        OneFinalizeAtTheEnd

\* C4, amended: the same, for a server that answers final to the requests
\* carrying 'upload, finalize' and to no other.
C4_LastIsFinalizeWhenServerAgrees ==
    (promise["first"].state = "fulfilled" /\ ChunkRequests # {} /\ AllOk
        /\ FinalExactlyOnFinalize) =>
        OneFinalizeAtTheEnd

C4_Witness ==
    /\ promise["first"].state = "fulfilled"
    /\ AllOk
    /\ FinalExactlyOnFinalize
    /\ Cardinality(ChunkRequests) >= 3
    /\ calls[Len(calls)].req.command = "upload, finalize"
    /\ calls[Len(calls) - 1].req.command = "upload"

\* ------------------------------------------------------------------------
\* C5
\* ------------------------------------------------------------------------

\* C5 as stated: with a granularity g > 0 chunk request number k carries
\* the offset k * g, the bytes of the slices sent before it.
C5_OffsetIsKTimesG ==
    ValidGranularity =>
        \A i \in ChunkRequests :
            /\ calls[i].req.offset = Num(ChunkNumber(i) * granularity.val)
            /\ calls[i].req.offset = SentBefore(i)

\* C5, amended: with an integer granularity g > 0 chunk request number k carries the
\* offset min(k * g, size), the bytes of the slices sent before it; that is
\* k * g for every request up to the first one that carries 'upload,
\* finalize'.
C5_OffsetIsBytesSent ==
    ValidGranularity =>
        \A i \in ChunkRequests :
            /\ calls[i].req.offset = Num(Min(ChunkNumber(i) * granularity.val, blobSize))
            /\ calls[i].req.offset = SentBefore(i)
            /\ (\A j \in ChunkRequests : j < i => calls[j].req.command = "upload")
                   => calls[i].req.offset = Num(ChunkNumber(i) * granularity.val)

\* A finalize request answered with a status that is not final, and the
\* request sent after it.
C5_Witness ==
    /\ ValidGranularity
    /\ \E i \in ChunkRequests :
          /\ i > 3
          /\ calls[i - 1].req.command = "upload, finalize"
          /\ calls[i].req.offset = Num(blobSize)
          /\ ChunkNumber(i) * granularity.val > blobSize

\* ------------------------------------------------------------------------
\* C6
\* ------------------------------------------------------------------------

\* C6: a response that is not ok, to the simple upload, to the session
\* start or to a chunk, makes the run fail, and the request it answers is
\* the last request of the task.
C6_NotOkFailsAndStops ==
    \A i \in Requests :
        NotOk(i) =>
            /\ promise["first"].state = "rejected"
            /\ i = Len(calls)
            /\ pending["first"] = NoPending

\* ------------------------------------------------------------------------
\* C7
\* ------------------------------------------------------------------------

\* C7: when the response to the session start is not ok the run fails,
\* uploadURL and granularity are not read from the response, and no chunk
\* request is sent.
C7_SessionStartNotOkFails ==
    (Len(calls) >= 1 /\ calls[1].req.kind = "start" /\ NotOk(1)) =>
        /\ promise["first"].state = "rejected"
        /\ uploadURL = "undefined"
        /\ granularity = Undefined
        /\ ChunkRequests = {}
        /\ pending["first"] = NoPending

\* ------------------------------------------------------------------------
\* C8
\* ------------------------------------------------------------------------

\* The run got a chunk reply other than an ok response that is not final.
OtherChunkReply(r) ==
    \/ lastReply[r].net = "error"
    \/ /\ lastReply[r].net = "response"
       /\ lastReply[r].status \in {"final", "active"}
       /\ (~lastReply[r].ok \/ lastReply[r].status = "final")

\* C8: once the session start has left a granularity that is no positive
\* number, the run fails, whatever ok responses that are not final the
\* server goes on to give.
C8_InvalidGranularityFails ==
    InvalidGranularity ~> (promise["first"].state = "rejected" \/ OtherChunkReply("first"))

\* ------------------------------------------------------------------------
\* C9
\* ------------------------------------------------------------------------

\* C9: when the last response to a chunk is ok with status final, the run
\* has nothing in flight, the request it answered is the last chunk request
\* of the task, and the promise is fulfilled with the parsed JSON body of
\* that response (rejected when the body is no JSON document); whatever
\* command the request carried and however many bytes remain.
C9_FinalResolves ==
    GotFinal("first") =>
        /\ pending["first"] = NoPending
        /\ LogComplete =>
              /\ calls[Len(calls)].replied
              /\ calls[Len(calls)].reply.status = "final"
        /\ LET parsed == JSONParse(lastReply["first"].body)
           IN  IF parsed.valid
               THEN promise["first"] = [state |-> "fulfilled", value |-> JsonValue(parsed.value)]
               ELSE promise["first"].state = "rejected"

\* Final answered to a request carrying 'upload' while bytes remain.
C9_Witness ==
    /\ GotFinal("first")
    /\ LogComplete
    /\ calls[Len(calls)].req.command = "upload"
    /\ IsNum(offset) /\ IsNum(calls[Len(calls)].req.size)
    /\ offset.val + calls[Len(calls)].req.size.val < blobSize
    /\ promise["first"] = [state |-> "fulfilled", value |-> JsonValue({<<"all", "good">>})]

\* ------------------------------------------------------------------------
\* C10
\* ------------------------------------------------------------------------

\* C10: the handlers of a run return or throw at most once, and from a
\* state where its promise is settled no step sends a request, has one in
\* flight, or changes the promise, offset, uploadURL or granularity.
C10_SettledOnceAndQuiet ==
    [][/\ settles'["first"] <= 1
       /\ Settled("first") =>
             /\ pending["first"] = NoPending
             /\ UNCHANGED <<promise, pending, calls, offset, uploadURL, granularity>>]_vars

C10_Witness ==
    /\ promise["first"].state = "fulfilled"
    /\ settles["first"] = 1
    /\ IsNum(offset) /\ offset.val > 0
    /\ pending["first"] = NoPending

\* ------------------------------------------------------------------------
\* C11
\* ------------------------------------------------------------------------

\* C11: in every state of a start() run of a resumable upload, once the
\* session start has set the offset, 0 <= offset <= blob.size, whatever
\* granularity the server returned and whatever it answers.
C11_OffsetWithinBlob ==
    offset # Undefined =>
        /\ IsNum(offset)
        /\ 0 <= offset.val
        /\ offset.val <= blobSize

\* ------------------------------------------------------------------------
\* C12
\* ------------------------------------------------------------------------

\* The step processes an ok response that is not final to the chunk request
\* of the first run.
OkActiveChunkStep ==
    /\ pending["first"].req.kind = "chunk"
    /\ vars' # vars
    /\ lastReply'["first"].net = "response"
    /\ lastReply'["first"].ok
    /\ lastReply'["first"].status # "final"

\* C12: the offset is first set to 0; no step makes it smaller; a step
\* changes it only by processing an ok response that is not final to a chunk
\* request, and such a step adds exactly the size of the slice that request
\* carried (this.offset += currentChunk.size).
C12_OffsetGrowsBySlice ==
    [][/\ offset = Undefined => offset' \in {Undefined, Num(0)}
       /\ offset # Undefined =>
             /\ offset' # Undefined
             /\ ~JsLess(offset', offset)
             /\ offset' # offset => OkActiveChunkStep
             /\ OkActiveChunkStep => offset' = JsAdd(offset, pending["first"].req.size)]_vars

C12_Witness ==
    /\ IsNum(offset)
    /\ offset.val = 2 * ChunkUnit
    /\ granularity = Num(ChunkUnit)
    /\ lastReply["first"].ok
    /\ lastReply["first"].status = "active"

\* ------------------------------------------------------------------------
\* C13
\* ------------------------------------------------------------------------

\* C13: at most one request of the task is unanswered, the one in flight;
\* and when a chunk request follows another, the earlier one has been
\* answered and the later one starts where the earlier slice ended.
C13_OneChunkInFlight ==
    /\ \A i \in Requests :
          ~calls[i].replied => (i = Len(calls) /\ pending["first"].at = i)
    /\ \A i \in ChunkRequests :
          (i + 1) \in ChunkRequests =>
              /\ calls[i].replied
              /\ calls[i + 1].req.offset = JsAdd(calls[i].req.offset, calls[i].req.size)

C13_Witness ==
    /\ Len(calls) = 4
    /\ calls[3].replied
    /\ ~calls[4].replied
    /\ pending["first"].at = 4
    /\ calls[4].req.offset = Num(2 * ChunkUnit)

\* ------------------------------------------------------------------------
\* C18
\* ------------------------------------------------------------------------

\* The step processes a response that is not ok to the simple upload request
\* or to a chunk request of the first run.
NotOkUploadStep ==
    /\ pending["first"].req.kind \in {"simple", "chunk"}
    /\ vars' # vars
    /\ lastReply'["first"].net = "response"
    /\ ~lastReply'["first"].ok

\* C18: a step that processes a response that is not ok to the simple
\* upload request or to a chunk request rejects the promise of start() with
\* exactly the text of that response's body, and leaves nothing in flight;
\* the promise is not fulfilled, also when the response carries status
\* final.
C18_NotOkRejectsWithBody ==
    [][NotOkUploadStep =>
          /\ promise'["first"] =
                [state |-> "rejected", value |-> TextValue(lastReply'["first"].body)]
          /\ pending'["first"] = NoPending]_vars

\* A chunk answered not ok with status final and a body that would parse.
C18_Witness ==
    /\ LogComplete
    /\ Len(calls) > 2
    /\ calls[Len(calls)].req.kind = "chunk"
    /\ calls[Len(calls)].replied
    /\ lastReply["first"].net = "response"
    /\ ~lastReply["first"].ok
    /\ lastReply["first"].status = "final"
    /\ lastReply["first"].body = "{}"
    /\ promise["first"] = [state |-> "rejected", value |-> TextValue("{}")]

\* ------------------------------------------------------------------------
\* C19
\* ------------------------------------------------------------------------

\* C19: in every state where the promise of start() is fulfilled, the last
\* response was ok and was the response to the simple upload or a chunk
\* response with status final, the value is the parsed JSON body of that
\* response, nothing is in flight and every request sent has been answered,
\* the answered one being the last.
C19_ResolvesOnlyWhenComplete ==
    promise["first"].state = "fulfilled" =>
        /\ lastReply["first"].net = "response"
        /\ lastReply["first"].ok
        /\ UseSimpleUpload(blobSize) \/ lastReply["first"].status = "final"
        /\ JSONParse(lastReply["first"].body).valid
        /\ promise["first"].value = JsonValue(JSONParse(lastReply["first"].body).value)
        /\ pending["first"] = NoPending
        /\ \A i \in Requests : calls[i].replied
        /\ LogComplete => calls[Len(calls)].reply = Logged(lastReply["first"])

C19_Witness ==
    /\ promise["first"].state = "fulfilled"
    /\ promise["first"].value = JsonValue({})
    /\ FinalExactlyOnFinalize
    /\ Len(calls) > 4
    /\ calls[Len(calls)].req.command = "upload, finalize"
    /\ calls[Len(calls)].reply.status = "final"

\* ------------------------------------------------------------------------
\* C20
\* ------------------------------------------------------------------------

\* C20: in every state where fetch() has rejected (for the session start, a
\* chunk or the simple upload), the promise of start() is rejected with the
\* error of the transport, nothing is in flight, the request that failed is
\* the last one sent, and it was sent once.
C20_TransportErrorFails ==
    lastReply["first"].net = "error" =>
        /\ promise["first"] = [state |-> "rejected", value |-> ErrorValue("NetworkError")]
        /\ pending["first"] = NoPending
        /\ LogComplete =>
              /\ calls[Len(calls)].replied
              /\ calls[Len(calls)].reply.net = "error"
              /\ \A i \in Requests : calls[i].reply.net = "error" => i = Len(calls)

\* The transport failed on the third chunk request.
C20_Witness ==
    /\ lastReply["first"].net = "error"
    /\ promise["first"] = [state |-> "rejected", value |-> ErrorValue("NetworkError")]
    /\ Len(calls) = 4
    /\ calls[4].req.kind = "chunk"
    /\ calls[4].replied
    /\ calls[4].reply.net = "error"

\* ------------------------------------------------------------------------
\* start() called again on the same task
\* ------------------------------------------------------------------------

\* start() has no guard: a caller holding the task can call it a second
\* time once the first call has been made.
startAgain ==
    /\ promise["first"].state # "none"
    /\ start("second")

\* The granularities of a server that answers as the protocol says.
SessionGranularities == {NumberHeader(k * ChunkUnit) : k \in {MaxUnits - 1, MaxUnits}}

\* A server that answers every request as the protocol says: ok, a session
\* with an upload URL and a granularity, final to 'upload, finalize' and
\* active to 'upload', an object as the body.
ServerAnswers(r) ==
    LET request == pending[r].req
        response == lastReply'[r]
    IN  /\ response.net = "response"
        /\ response.ok
        /\ request.kind = "start" =>
              /\ response.url = SessionURL
              /\ response.granularity \in SessionGranularities
        /\ request.kind = "chunk" =>
              /\ response.status = (IF request.command = "upload, finalize" THEN "final" ELSE "active")
              /\ response.body = "{}"
        /\ request.kind = "simple" => response.body = "{}"

\* The task with a caller that may call start() twice, and a server that
\* answers as the protocol says.
NextAgain ==
    \/ start("first")
    \/ startAgain
    \/ \E r \in Runs : simpleUploadResponse(r) /\ ServerAnswers(r)
    \/ \E r \in Runs : startResumableUploadResponse(r) /\ ServerAnswers(r)
    \/ \E r \in Runs : resumeUploadResponse(r) /\ ServerAnswers(r)

SpecAgain == Init /\ [][NextAgain]_vars

\* ------------------------------------------------------------------------
\* C14
\* ------------------------------------------------------------------------

\* C14: once start() has been called a second time, its promise is rejected
\* with an AlreadyStarted error and the log holds no request of that call.
C14_SecondStartRejected ==
    promise["second"].state # "none" =>
        /\ promise["second"] = [state |-> "rejected", value |-> ErrorValue("AlreadyStarted")]
        /\ \A i \in Requests : calls[i].req.run # "second"

\* ------------------------------------------------------------------------
\* C15
\* ------------------------------------------------------------------------

\* The bytes of the chunk requests to url, up to request n of the log, that
\* the server acknowledged with an ok response that was not final.
RECURSIVE Acknowledged(_, _, _)
Acknowledged(log, url, n) ==
    IF n = 0
    THEN 0
    ELSE LET call == log[n]
             counts == /\ call.req.kind = "chunk"
                       /\ call.req.url = url
                       /\ call.replied
                       /\ call.reply.net = "response"
                       /\ call.reply.ok
                       /\ call.reply.status # "final"
                       /\ IsNum(call.req.size)
         IN  Acknowledged(log, url, n - 1) + (IF counts THEN call.req.size.val ELSE 0)

\* The step sends a chunk request.
SendsChunk ==
    /\ Len(calls') > Len(calls)
    /\ calls'[Len(calls')].req.kind = "chunk"

\* C15: with start() called a second time during a resumable upload, in
\* every step the offset stays within 0..blob.size, and every chunk request
\* sent carries as X-Goog-Upload-Offset the number of bytes the server has
\* acknowledged on its upload URL so far, so that the slices sent follow one
\* another without a gap.
C15_SecondStartKeepsSession ==
    [][/\ IsNum(offset') => (0 <= offset'.val /\ offset'.val <= blobSize)
       /\ SendsChunk =>
             LET sent == calls'[Len(calls')].req
             IN  sent.offset = Num(Acknowledged(calls', sent.url, Len(calls')))]_vars

\* ------------------------------------------------------------------------
\* C16
\* ------------------------------------------------------------------------

\* C16: once uploadURL and granularity have been set, no step (a chunk
\* response processed, or start() called again and answered) changes either,
\* and every chunk request of the log went to that uploadURL.
C16_SessionFieldsSetOnce ==
    [][/\ uploadURL # "undefined" => uploadURL' = uploadURL
       /\ granularity # Undefined => granularity' = granularity
       /\ \A i \in DOMAIN calls' :
             calls'[i].req.kind = "chunk" => calls'[i].req.url = uploadURL']_vars

\* ------------------------------------------------------------------------
\* Two tasks at once
\* ------------------------------------------------------------------------

\* The blobs of the two instances: one for the simple upload, two for the
\* resumable one.
TaskBlobSizes == {SimpleUploadLimit - 1, SimpleUploadLimit, MaxBlobSize}

\* What the server answers to the two instances.
TaskSessionReplies ==
    {response \in SessionReplies :
        response.granularity \in SessionGranularities \cup {AbsentHeader}}

TaskChunkReplies == {response \in ChunkReplies : response.body \in {"{}", "Not Found"}}

TaskSimpleReplies == {response \in SimpleReplies : response.body \in {"{}", "Not Found"}}

\* The fields of the instance, and the chain of start() on it.
FieldsOf(t) == tasks.this[This(t)]

ChainOf(t) == tasks.chain[t]

\* A step of instance t: its fields and its chain after the step.
TaskBecomes(t, fields, chain) ==
    /\ tasks' = [this |-> [tasks.this EXCEPT ![This(t)] = fields],
                 chain |-> [tasks.chain EXCEPT ![t] = chain]]
    /\ UNCHANGED <<blobSize, hasAuth, uploadURL, granularity, offset,
                   pending, promise, settles, lastReply, calls, iter, applied>>

\* start() on instance t
taskStart(t) ==
    /\ ChainOf(t).promise.state = "none"
    /\ LET this == FieldsOf(t)
           request ==
               authorizedFetch(
                   IF UseSimpleUpload(this.blob)
                   THEN simpleUploadRequest("first", this.blob)
                   ELSE startResumableUploadRequest("first", this.blob),
                   this.auth)
       IN  TaskBecomes(t, this, [pending |-> request, promise |-> PendingPromise])

\* simpleUpload() on instance t: the response arrives
taskSimpleUploadResponse(t) ==
    /\ ChainOf(t).pending.kind = "simple"
    /\ \E response \in TaskSimpleReplies \cup {NetworkError} :
          LET this == FieldsOf(t)
              out == IF response.net = "error"
                     THEN fetchRejected(this.offset)
                     ELSE simpleUploadThen(response)
          IN  TaskBecomes(t, this,
                          [pending |-> NoRequest, promise |-> Settle(ChainOf(t).promise, out)])

\* startResumableUpload() on instance t: the session-start response arrives
taskStartResumableUploadResponse(t) ==
    /\ ChainOf(t).pending.kind = "start"
    /\ \E response \in TaskSessionReplies \cup {NetworkError} :
          LET this == FieldsOf(t)
          IN  IF response.net = "error"
              THEN TaskBecomes(t, this,
                               [pending |-> NoRequest,
                                promise |-> Settle(ChainOf(t).promise, fetchRejected(this.offset))])
              ELSE LET saved == sessionFields(response)
                       request ==
                           authorizedFetch(
                               resumeUploadRequest("first", this.blob, saved.uploadURL,
                                                   saved.granularity, saved.offset),
                               this.auth)
                   IN  TaskBecomes(t,
                                   [this EXCEPT !.uploadURL = saved.uploadURL,
                                                !.granularity = saved.granularity,
                                                !.offset = saved.offset],
                                   [pending |-> request, promise |-> ChainOf(t).promise])

\* resumeUpload() on instance t: the response to a chunk request arrives
taskResumeUploadResponse(t) ==
    /\ ChainOf(t).pending.kind = "chunk"
    /\ \E response \in TaskChunkReplies \cup {NetworkError} :
          LET this == FieldsOf(t)
              out == IF response.net = "error"
                     THEN fetchRejected(this.offset)
                     ELSE resumeUploadThen(response, ChainOf(t).pending.size, this.offset)
              request ==
                  authorizedFetch(
                      resumeUploadRequest("first", this.blob, this.uploadURL,
                                          this.granularity, out.offset),
                      this.auth)
          IN  TaskBecomes(t,
                          [this EXCEPT !.offset = out.offset],
                          [pending |-> IF out.again THEN request ELSE NoRequest,
                           promise |-> Settle(ChainOf(t).promise, out)])

\* A step of instance t.
TaskStep(t) ==
    \/ taskStart(t)
    \/ taskSimpleUploadResponse(t)
    \/ taskStartResumableUploadResponse(t)
    \/ taskResumeUploadResponse(t)

InitTasks ==
    /\ blobSize = 0
    /\ hasAuth = FALSE
    /\ uploadURL = "undefined"
    /\ granularity = Undefined
    /\ offset = Undefined
    /\ pending = [r \in Runs |-> NoPending]
    /\ promise = [r \in Runs |-> NoPromise]
    /\ settles = [r \in Runs |-> 0]
    /\ lastReply = [r \in Runs |-> NoReply]
    /\ calls = <<>>
    /\ \E sizeA \in TaskBlobSizes, sizeB \in TaskBlobSizes, auth \in BOOLEAN :
          tasks = [this |-> [t \in Tasks |->
                                IF t = "taskA" THEN NewTask(sizeA, auth) ELSE NewTask(sizeB, ~auth)],
                   chain |-> [t \in Tasks |-> NewChain]]
    /\ iter = NewIterable(0, [c \in Consumers |-> "lazy"])
    /\ applied = NoCall

NextTasks ==
    \/ \E t \in Tasks : taskStart(t)
    \/ \E t \in Tasks : taskSimpleUploadResponse(t)
    \/ \E t \in Tasks : taskStartResumableUploadResponse(t)
    \/ \E t \in Tasks : taskResumeUploadResponse(t)

SpecTasks == InitTasks /\ [][NextTasks]_vars

\* ------------------------------------------------------------------------
\* C17
\* ------------------------------------------------------------------------

\* C17: with two instances running at once, every step of one instance
\* (start(), a response handled, the promise settled) leaves the offset,
\* uploadURL, granularity and all other fields of the other instance, and
\* the promise of the other instance, as they were.
C17_TasksIndependent ==
    [][\A t \in Tasks :
          TaskStep(t) =>
              \A u \in Tasks \ {t} :
                  /\ tasks'.this[u] = tasks.this[u]
                  /\ tasks'.chain[u] = tasks.chain[u]]_vars

\* Both instances in the middle of a resumable upload, each with its own
\* granularity and offset.
C17_Witness ==
    /\ tasks.this["taskA"].granularity = Num(MaxUnits * ChunkUnit)
    /\ tasks.this["taskA"].offset = Num(2 * MaxUnits * ChunkUnit)
    /\ tasks.this["taskB"].granularity = Num((MaxUnits - 1) * ChunkUnit)
    /\ tasks.this["taskB"].offset = Num((MaxUnits - 1) * ChunkUnit)
    /\ tasks.chain["taskA"].promise.state = "pending"
    /\ tasks.chain["taskB"].promise.state = "pending"

\* ------------------------------------------------------------------------
\* The self-starting iterable UploadTask: start, init, next, the iterator
\* ------------------------------------------------------------------------

\* Blobs of up to MaxChunks chunks of ChunkUnit bytes.
MaxChunks == 3

\* The small blob of the tests: new MockBlob(200, 'someType').
SmallBlob == 200

IterBlobSizes == {k * ChunkUnit + d : k \in 0..(MaxChunks - 1), d \in {0, SmallBlob}}

\* The loop of start() is followed for this many calls of next(); a blob of
\* IterBlobSizes with a granularity of ChunkUnit or more needs no more.
RoundLimit == MaxChunks

\* A consumer is followed for this many results.
SeenLimit == RoundLimit + 2

IterSessionReplies ==
    {response \in SessionReplies :
        response.granularity \in {AbsentHeader, TextHeader,
                                  NumberHeader(ChunkUnit), NumberHeader(2 * ChunkUnit)}}

\* The reactions of the waiters of this.chunk number k, in the order of
\* their await.
JobsFor(waiters, k) == [i \in 1..Len(waiters) |-> [who |-> waiters[i], of |-> k]]

\* The async function behind promise k returns {done, value: {offset,
\* total: blob.size}}.
FulfilChunk(it, k, done, reached) ==
    [it EXCEPT !.results[k + 1] =
                   [state |-> "fulfilled", done |-> done, offset |-> reached,
                    total |-> Num(it.blob), waiters |-> <<>>],
               !.jobs = @ \o JobsFor(it.results[k + 1].waiters, k)]

\* The async function behind promise k throws.
RejectChunk(it, k) ==
    [it EXCEPT !.results[k + 1] =
                   [state |-> "rejected", done |-> FALSE, offset |-> Undefined,
                    total |-> Undefined, waiters |-> <<>>],
               !.jobs = @ \o JobsFor(it.results[k + 1].waiters, k)]

\* this._res(res.json()): _p follows the promise of res.json()
Resolve(it, body) ==
    LET parsed == JSONParse(body)
    IN  [it EXCEPT !.resCalls = @ + 1,
                   !.p = IF @.state # "pending"
                         THEN @
                         ELSE IF parsed.valid
                              THEN [state |-> "fulfilled", value |-> JsonValue(parsed.value)]
                              ELSE [state |-> "rejected", value |-> ErrorValue("SyntaxError")]]

\* this._rej(e)
Reject(it, reason) ==
    [it EXCEPT !.rejCalls = @ + 1,
               !.p = IF @.state # "pending"
                     THEN @
                     ELSE [state |-> "rejected", value |-> reason]]

\* init() after its await: the fields are saved, {done: false, value:
\* {offset: 0}} returned
initThen(it, response) ==
    FulfilChunk([it EXCEPT !.uploadURL = response.url,
                           !.granularity = Number(response.granularity),
                           !.fetching = NoFetch],
                0, FALSE, Num(0))

\* next() up to its await, called as `this.chunk = this.next()`: the slice
\* is cut and the chunk request sent; whoever called it awaits the new
\* this.chunk
nextCall(it, caller) ==
    IF it.chunk >= RoundLimit
    THEN [it EXCEPT !.loop = "capped"]
    ELSE LET slice == currentChunk(it.blob, it.offset, it.granularity)
             request == [kind |-> "chunk",
                         command |-> UploadCommand(isLastChunk(slice, it.granularity)),
                         offset |-> it.offset,
                         size |-> slice]
         IN  [it EXCEPT !.chunk = @ + 1,
                        !.results = Append(@, PendingChunk(<<caller>>)),
                        !.fetching = request,
                        !.requests = Append(@, request)]

\* `done: isLastChunk` reported on no result.
nextDoneNever(last) == FALSE

\* next(): `done: isLastChunk`
nextDone(last) == last

\* The offset read at the start of next() (`const { offset } = this`)
\* reported as value.offset.
nextValueStale(before, after) == before

\* next(): `value: { offset: this.offset, ... }`, read after the offset has
\* advanced
nextValue(before, after) == after

\* next() after its await: the offset advances, _p is resolved on the last
\* chunk, {done: isLastChunk, value: {offset: this.offset}} returned
nextThen(it, response) ==
    LET last == it.fetching.command = "upload, finalize"
        advanced == [it EXCEPT !.offset = JsAdd(@, it.fetching.size),
                               !.fetching = NoFetch]
        resolved == IF last THEN Resolve(advanced, response.body) ELSE advanced
    IN  FulfilChunk(resolved, it.chunk, nextDone(last), nextValue(it.offset, resolved.offset))

\* start() after an await of this.chunk number k: the catch block, the
\* break, or the next turn of the loop
startThen(it, k) ==
    LET result == it.results[k + 1]
    IN  IF result.state = "rejected"
        THEN [Reject(it, ErrorValue("NetworkError")) EXCEPT !.loop = "failed"]
        ELSE IF k > 0 /\ result.done
             THEN [it EXCEPT !.loop = "done"]
             ELSE nextCall(it, "start")

\* next() of the iterator calling this.next() itself.
asyncIteratorNextCallsNext(it) ==
    [it EXCEPT !.requests =
                   Append(@, [kind |-> "chunk", command |-> "upload",
                              offset |-> it.offset,
                              size |-> currentChunk(it.blob, it.offset, it.granularity)])]

\* [Symbol.asyncIterator]().next(): `return this.chunk`, the task is left as
\* it is
asyncIteratorNext(it) == it

\* The response to a chunk request that carried 'upload, finalize' has been
\* processed by next().
FinalProcessed(it) ==
    /\ it.fetching.kind = "none"
    /\ it.requests[Len(it.requests)].command = "upload, finalize"
    /\ it.results[it.chunk + 1].state = "fulfilled"

\* A consumer calls next() of an iterator and awaits the promise it got.
AskNext(it, c) ==
    LET after == asyncIteratorNext(it)
        k == after.chunk
        got == after.results[k + 1]
        waiting == [after EXCEPT !.consumers[c].at = "waiting",
                                 !.consumers[c].on = k,
                                 !.consumers[c].late = FinalProcessed(it)]
    IN  IF got.state = "pending"
        THEN [waiting EXCEPT !.results[k + 1].waiters = Append(@, c)]
        ELSE [waiting EXCEPT !.jobs = Append(@, [who |-> c, of |-> k])]

\* The iterable task takes a step to `it`.
IterBecomes(it) ==
    /\ iter' = it
    /\ UNCHANGED <<blobSize, hasAuth, uploadURL, granularity, offset,
                   pending, promise, settles, lastReply, calls, tasks, applied>>

\* The session-start response arrives (no reaction is waiting to run):
\* init() goes on, or the fetch rejects
initResponse ==
    /\ iter.fetching.kind = "start"
    /\ iter.jobs = <<>>
    /\ \E response \in IterSessionReplies \cup {NetworkError} :
          IterBecomes(IF response.net = "error"
                      THEN RejectChunk([iter EXCEPT !.fetching = NoFetch], 0)
                      ELSE initThen(iter, response))

\* A chunk response arrives: next() goes on, or the fetch rejects
nextResponse ==
    /\ iter.fetching.kind = "chunk"
    /\ iter.jobs = <<>>
    /\ \E response \in ChunkReplies \cup {NetworkError} :
          IterBecomes(IF response.net = "error"
                      THEN RejectChunk([iter EXCEPT !.fetching = NoFetch], iter.chunk)
                      ELSE nextThen(iter, response))

\* The first reaction waiting to run is start()'s
startResumes ==
    /\ iter.jobs # <<>>
    /\ Head(iter.jobs).who = "start"
    /\ IterBecomes(startThen([iter EXCEPT !.jobs = Tail(@)], Head(iter.jobs).of))

\* The first reaction waiting to run is consumer c's: it receives the
\* result of the promise it awaited; a for-await loop stops on done and on
\* a rejection, and otherwise runs its body and asks for the next result
\* (it is followed for SeenLimit results)
iteratorDelivers(c) ==
    /\ iter.jobs # <<>>
    /\ Head(iter.jobs).who = c
    /\ LET k == Head(iter.jobs).of
           result == iter.results[k + 1]
           taken == [iter EXCEPT !.jobs = Tail(@)]
           entry == [of |-> k, done |-> result.done, offset |-> result.offset,
                     total |-> result.total, late |-> iter.consumers[c].late]
           noted == [taken EXCEPT !.consumers[c].seen = Append(@, entry)]
       IN  IterBecomes(
               IF result.state = "rejected"
               THEN [taken EXCEPT !.consumers[c].at = "failed"]
               ELSE IF result.done
                    THEN [noted EXCEPT !.consumers[c].at = "done"]
                    ELSE IF iter.consumers[c].mode = "eager" /\ Len(noted.consumers[c].seen) < SeenLimit
                         THEN AskNext(noted, c)
                         ELSE [noted EXCEPT !.consumers[c].at = "body"])

\* A consumer that iterates by hand calls next() of the iterator
iteratorNext(c) ==
    /\ iter.consumers[c].mode = "lazy"
    /\ iter.consumers[c].at \in {"idle", "body", "done"}
    /\ Len(iter.consumers[c].seen) < SeenLimit
    /\ IterBecomes(AskNext(iter, c))

InitOthers ==
    /\ blobSize = 0
    /\ hasAuth = FALSE
    /\ uploadURL = "undefined"
    /\ granularity = Undefined
    /\ offset = Undefined
    /\ pending = [r \in Runs |-> NoPending]
    /\ promise = [r \in Runs |-> NoPromise]
    /\ settles = [r \in Runs |-> 0]
    /\ lastReply = [r \in Runs |-> NoReply]
    /\ calls = <<>>
    /\ tasks = [this |-> [t \in Tasks |-> NewTask(0, FALSE)],
                chain |-> [t \in Tasks |-> NewChain]]

\* The first consumer iterates by for-await or by hand, the second by
\* for-await.
IterModes == {modes \in [Consumers -> {"eager", "lazy"}] : modes["c2"] = "eager"}

InitIter ==
    /\ InitOthers
    /\ applied = NoCall
    /\ \E size \in IterBlobSizes, modes \in IterModes :
          iter = NewIterable(size, modes)

NextIter ==
    \/ initResponse
    \/ nextResponse
    \/ startResumes
    \/ \E c \in Consumers : iteratorDelivers(c)
    \/ \E c \in Consumers : iteratorNext(c)

SpecIter == InitIter /\ [][NextIter]_vars

\* ------------------------------------------------------------------------
\* The self-starting iterable UploadTask: then, catch, finally
\* ------------------------------------------------------------------------

\* The task's then, catch and finally are followed for this many calls.
MaxHandlers == 2

Methods == {"then", "catch", "finally"}

\* Every method handing its arguments to this._p.then.
forwardToThen(m) == <<"then">>

\* then() { this._p.then(...arguments) }, and likewise catch and finally:
\* the methods of _p that method m of the task calls
forward(m) == <<m>>

\* The handlers that a call of method m of the task registers on _p.
Registered(m, callNo) ==
    [i \in 1..Len(forward(m)) |->
        [on |-> m, callNo |-> callNo, via |-> forward(m)[i],
         ran |-> FALSE, called |-> FALSE, with |-> NoPromise]]

\* What _p does with a handler registered through its method `via` once it
\* is settled as `settled`: then(onFulfilled, onRejected) calls one of the
\* two with the value or the reason, catch(onRejected) is called on a
\* rejection only, finally(onFinally) is called without an argument.
Observes(handler, settled) ==
    [handler EXCEPT
        !.ran = TRUE,
        !.called = (handler.via # "catch" \/ settled.state = "rejected"),
        !.with = IF handler.via = "then" \/ (handler.via = "catch" /\ settled.state = "rejected")
                 THEN settled
                 ELSE NoPromise]

\* The caller calls then, catch or finally of the task
thenCall(m) ==
    /\ Len(iter.handlers) < MaxHandlers
    /\ IterBecomes([iter EXCEPT !.handlers = @ \o Registered(m, Len(iter.handlers) + 1)])

\* _p is settled and calls a handler registered on it
handlerRuns(i) ==
    /\ iter.p.state # "pending"
    /\ ~iter.handlers[i].ran
    /\ IterBecomes([iter EXCEPT !.handlers[i] = Observes(@, iter.p)])

InitThenable ==
    /\ InitOthers
    /\ applied = NoCall
    /\ \E size \in IterBlobSizes :
          iter = NewIterable(size, [c \in Consumers |-> "lazy"])

NextThenable ==
    \/ initResponse
    \/ nextResponse
    \/ startResumes
    \/ \E m \in Methods : thenCall(m)
    \/ \E i \in DOMAIN iter.handlers : handlerRuns(i)

SpecThenable == InitThenable /\ [][NextThenable]_vars

\* ------------------------------------------------------------------------
\* C21
\* ------------------------------------------------------------------------

\* The progress events consumer c has been given: the results that were not
\* done (a for-await loop runs its body on these only).
Items(c) == SelectSeq(iter.consumers[c].seen, LAMBDA e : ~e.done)

\* The chunk requests of the iterable task, in the order sent.
IterChunkRequests == SelectSeq(iter.requests, LAMBDA r : r.kind = "chunk")

\* C21: when the iteration of a consumer has ended, the offsets of the
\* progress events it was given never decrease and the last of them equals
\* blob.size.
C21_LastEventIsSize ==
    \A c \in Consumers :
        LET items == Items(c)
        IN  (iter.consumers[c].at = "done" /\ items # <<>>) =>
                /\ \A i \in 1..(Len(items) - 1) : ~JsLess(items[i + 1].offset, items[i].offset)
                /\ items[Len(items)].offset = Num(iter.blob)

\* ------------------------------------------------------------------------
\* C22
\* ------------------------------------------------------------------------

\* C22: a for-await loop begun on the new task is given one item per chunk
\* request, in the order of the requests: its i-th item comes from the i-th
\* promise of this.chunk and is {offset, total} with the offset the i-th
\* chunk request carried and total = blob.size; it never has more items than
\* chunk requests were sent, and when it has ended it has as many.
C22_OneItemPerChunkRequest ==
    \A c \in Consumers :
        (iter.consumers[c].mode = "eager" /\ iter.loop # "capped") =>
            LET items == Items(c)
                reqs == IterChunkRequests
            IN  /\ Len(items) <= Len(reqs)
                /\ \A i \in 1..Len(items) :
                      /\ items[i].of = i - 1
                      /\ items[i].offset = reqs[i].offset
                      /\ items[i].total = Num(iter.blob)
                /\ iter.consumers[c].at = "done" => Len(items) = Len(reqs)

\* A for-await loop has ended after three items of a three-chunk upload.
C22_Witness ==
    /\ iter.consumers["c2"].at = "done"
    /\ Len(Items("c2")) = 3
    /\ Items("c2")[3].offset = Num(2 * ChunkUnit)
    /\ Len(IterChunkRequests) = 3
    /\ iter.p.state = "fulfilled"

\* ------------------------------------------------------------------------
\* C23
\* ------------------------------------------------------------------------

\* The session gave a granularity that is a positive number.
IterValidGranularity == IsNum(iter.granularity) /\ iter.granularity.val > 0

\* C23: with a granularity that is a positive number, a consumer that began
\* with the first promise of the task is given the result of every round
\* trip once: its i-th item comes from the i-th promise of this.chunk, none
\* left out and none given twice, however slow the consumer is.
C23_EveryRoundTripOnce ==
    \A c \in Consumers :
        LET items == Items(c)
        IN  (items # <<>> /\ items[1].of = 0 /\ iter.loop # "capped" /\ IterValidGranularity) =>
                \A i \in 1..Len(items) : items[i].of = i - 1

\* ------------------------------------------------------------------------
\* C24
\* ------------------------------------------------------------------------

\* The chunk request the loop of start() sends as request j of the log,
\* given the request before it.
LoopRequest(j) ==
    LET from == IF j = 2
                THEN Num(0)
                ELSE JsAdd(iter.requests[j - 1].offset, iter.requests[j - 1].size)
        slice == currentChunk(iter.blob, from, iter.granularity)
    IN  [kind |-> "chunk",
         command |-> UploadCommand(isLastChunk(slice, iter.granularity)),
         offset |-> from,
         size |-> slice]

\* The requests are those of the loop of start() alone: the session start,
\* then chunk after chunk, and none after the chunk that finalizes.
OnlyLoopRequests ==
    /\ iter.requests[1] = initRequest(iter.blob)
    /\ \A j \in 2..Len(iter.requests) :
          /\ iter.requests[j] = LoopRequest(j)
          /\ j > 2 => iter.requests[j - 1].command # "upload, finalize"

\* C24: a step of a consumer (next() of an iterator called, a result
\* received) sends no request and leaves this.chunk and the request in
\* flight as they are; with any consumers, the requests sent are those of
\* the loop of start() alone.
C24_IteratingSendsNothing ==
    [][/\ \A c \in Consumers :
             (iteratorNext(c) \/ iteratorDelivers(c)) =>
                 /\ iter'.requests = iter.requests
                 /\ iter'.fetching = iter.fetching
                 /\ iter'.chunk = iter.chunk
       /\ OnlyLoopRequests']_vars

\* Two consumers have asked eight times between them and the task has sent
\* its four requests.
C24_Witness ==
    /\ Len(iter.consumers["c1"].seen) + Len(iter.consumers["c2"].seen) = 8
    /\ iter.consumers["c1"].mode = "lazy"
    /\ Len(iter.requests) = 4
    /\ iter.loop = "done"

\* ------------------------------------------------------------------------
\* C25
\* ------------------------------------------------------------------------

\* C25: a result asked for after the response to the finalizing chunk has
\* been processed is done, and so is every result a consumer receives
\* after a done one: no progress event follows.
C25_DoneAfterFinal ==
    \A c \in Consumers :
        LET seen == iter.consumers[c].seen
        IN  /\ \A i \in DOMAIN seen : seen[i].late => seen[i].done
            /\ \A i \in DOMAIN seen : \A j \in DOMAIN seen :
                  (i < j /\ seen[i].done) => (seen[j].done /\ seen[j].late)

\* A consumer has been told done three times running.
C25_Witness ==
    LET seen == iter.consumers["c1"].seen
    IN  /\ Len(seen) >= 3
        /\ seen[Len(seen)].done /\ seen[Len(seen)].late
        /\ seen[Len(seen) - 1].done
        /\ seen[Len(seen) - 2].done
        /\ iter.loop = "done"

\* ------------------------------------------------------------------------
\* C26
\* ------------------------------------------------------------------------

\* Every call of then, catch or finally of the task has registered one
\* handler on _p, through the method of _p of the same name.
ForwardedOnce ==
    \A i \in DOMAIN iter.handlers :
        /\ iter.handlers[i].callNo = i
        /\ iter.handlers[i].via = iter.handlers[i].on

\* A handler that has run has seen the settlement of _p as the method of
\* the task it was given to promises: then sees the value or the reason,
\* catch is called on a rejection only and sees the reason, finally is
\* called either way.
ObservedSettlement ==
    \A i \in DOMAIN iter.handlers :
        LET handler == iter.handlers[i]
        IN  handler.ran =>
                /\ iter.p.state # "pending"
                /\ handler.on = "then" => (handler.called /\ handler.with = iter.p)
                /\ handler.on = "catch" =>
                      /\ handler.called = (iter.p.state = "rejected")
                      /\ handler.called => handler.with = iter.p
                /\ handler.on = "finally" => handler.called

\* C26 as stated: the task forwards each call once to the same method of
\* _p, the internal resolve and reject are called at most once between
\* them, and what a handler sees is what was passed to them: a value only
\* if the internal resolve was called, a reason only if the internal reject
\* was called.
C26_HandlersSeeWhatWasPassed ==
    /\ ForwardedOnce
    /\ ObservedSettlement
    /\ iter.resCalls + iter.rejCalls <= 1
    /\ \A i \in DOMAIN iter.handlers :
          LET handler == iter.handlers[i]
          IN  /\ handler.with.state = "fulfilled" => iter.resCalls = 1
              /\ handler.with.state = "rejected" => iter.rejCalls = 1

\* C26, amended: the task forwards each call once to the same method of
\* _p, the internal resolve and reject are called at most once between
\* them, and a handler sees the settlement of _p: the outcome of the
\* promise res.json() that was passed to the internal resolve (its value,
\* or its rejection), or the reason passed to the internal reject.
C26_HandlersSeeSettlement ==
    /\ ForwardedOnce
    /\ ObservedSettlement
    /\ iter.resCalls + iter.rejCalls <= 1
    /\ iter.p.state = "fulfilled" => (iter.resCalls = 1 /\ iter.p.value.tag = "json")
    /\ iter.p.state = "rejected" =>
          \/ iter.rejCalls = 1 /\ iter.p.value = ErrorValue("NetworkError")
          \/ iter.resCalls = 1 /\ iter.p.value = ErrorValue("SyntaxError")

\* A then handler has seen the value and a catch handler was passed over.
C26_Witness ==
    /\ Len(iter.handlers) = 2
    /\ iter.handlers[1].on = "catch" /\ iter.handlers[1].ran /\ ~iter.handlers[1].called
    /\ iter.handlers[2].on = "then" /\ iter.handlers[2].ran
    /\ iter.handlers[2].with = [state |-> "fulfilled", value |-> JsonValue({})]

\* ------------------------------------------------------------------------
\* utils.js: strings, objects and objectToQuery
\* ------------------------------------------------------------------------

\* A string is a sequence of symbols: single characters, and property names
\* taken whole.  Strings of this many characters are tried as values.
MaxChars == 2

\* Objects of this many properties are tried.
MaxProps == 2

Str(chars) == [kind |-> "str", val |-> chars]
Null == [kind |-> "null", val |-> <<>>]

\* An object: its own enumerable properties, <<name, value>>, in the order
\* for...in visits them.
Obj(props) == [kind |-> "object", val |-> props]

\* The string of a value, as a template literal or encodeURIComponent takes it
StringOf(v) ==
    CASE v.kind = "str" -> v.val
      [] v.kind = "null" -> <<"n", "u", "l", "l">>
      [] v.kind = "undefined" -> <<"u", "n", "d", "e", "f", "i", "n", "e", "d">>

\* encodeURIComponent of one character: letters, digits and - _ . ! ~ * ' ( )
\* stay, every other character becomes % and the two hex digits of its byte.
encodeChar(c) ==
    CASE c = "/" -> <<"%", "2", "F">>
      [] c = "?" -> <<"%", "3", "F">>
      [] c = "&" -> <<"%", "2", "6">>
      [] c = "=" -> <<"%", "3", "D">>
      [] c = " " -> <<"%", "2", "0">>
      [] c = "%" -> <<"%", "2", "5">>
      [] c = ":" -> <<"%", "3", "A">>
      [] OTHER -> <<c>>

RECURSIVE encodeChars(_)
encodeChars(chars) ==
    IF chars = <<>> THEN <<>>
    ELSE encodeChar(Head(chars)) \o encodeChars(Tail(chars))

encodeURIComponent(v) == encodeChars(StringOf(v))

\* Array.prototype.join
RECURSIVE join(_, _)
join(arr, sep) ==
    IF arr = <<>> THEN <<>>
    ELSE IF Len(arr) = 1 THEN arr[1]
    ELSE arr[1] \o sep \o join(Tail(arr), sep)

\* A test for a falsy value in place of `=== undefined`.
skipsFalsy(value) ==
    value.kind \in {"undefined", "null"} \/ value = Str(<<>>)

\* objectToQuery: `if (obj[prop] === undefined) continue`
skipsUndefined(value) == value.kind = "undefined"

\* objectToQuery: the for...in loop filling propsArr
RECURSIVE objectToQueryLoop(_, _)
objectToQueryLoop(props, propsArr) ==
    IF props = <<>> THEN propsArr
    ELSE LET prop == Head(props)[1]
             value == Head(props)[2]
         IN  IF skipsUndefined(value)
             THEN objectToQueryLoop(Tail(props), propsArr)
             ELSE objectToQueryLoop(Tail(props),
                     Append(propsArr, <<prop, "=">> \o encodeURIComponent(value)))

\* objectToQuery(obj = {})
objectToQuery(obj) ==
    LET given == IF obj.kind = "undefined" THEN Obj(<<>>) ELSE obj
        propsArr == objectToQueryLoop(given.val, <<>>)
    IN  IF Len(propsArr) = 0 THEN <<>> ELSE <<"?">> \o join(propsArr, <<"&">>)

\* ------------------------------------------------------------------------
\* UploadTask: the metadata it sends
\* ------------------------------------------------------------------------

\* obj[key]: undefined when the object has no such property
Get(obj, key) ==
    IF \E i \in DOMAIN obj.val : obj.val[i][1] = key
    THEN obj.val[CHOOSE i \in DOMAIN obj.val : obj.val[i][1] = key][2]
    ELSE Undefined

\* `key: value` in an object literal: a later property of the same name
\* takes the place of the earlier one
Set(obj, key, value) ==
    IF \E i \in DOMAIN obj.val : obj.val[i][1] = key
    THEN Obj([i \in DOMAIN obj.val |->
                 IF obj.val[i][1] = key THEN <<key, value>> ELSE obj.val[i]])
    ELSE Obj(Append(obj.val, <<key, value>>))

\* `...source` in an object literal
RECURSIVE Spread(_, _)
Spread(target, props) ==
    IF props = <<>> THEN target
    ELSE Spread(Set(target, Head(props)[1], Head(props)[2]), Tail(props))

\* name.replace(/^\//, ''): one leading slash is removed
withoutLeadingSlash(chars) ==
    IF chars # <<>> /\ Head(chars) = "/" THEN Tail(chars) ELSE chars

\* The literal with the caller's metadata spread last.
taskMetadataCallerLast(metadata, name, type) ==
    Spread(Obj(<<<<"name", Str(withoutLeadingSlash(name))>>, <<"contentType", type>>>>),
           metadata.val)

\* constructor: this.metadata = {...metadata, name: name.replace(/^\//, ''),
\* contentType: blob.type}
taskMetadata(metadata, name, type) ==
    Set(Set(Spread(Obj(<<>>), metadata.val), "name", Str(withoutLeadingSlash(name))),
        "contentType", type)

\* JSON.stringify of an object and what the receiver reads back: a property
\* whose value is undefined is left out
JSONStringify(obj) ==
    Obj(SelectSeq(obj.val, LAMBDA prop : prop[2].kind # "undefined"))

\* constructor({ bucket, name, blob, metadata = {}, auth }) and the body of
\* the first request, JSON.stringify(metadata)
sentMetadata(metadata, name, type) ==
    LET given == IF metadata.kind = "undefined" THEN Obj(<<>>) ELSE metadata
    IN  JSONStringify(taskMetadata(given, name, type))

\* ------------------------------------------------------------------------
\* Reference
\* ------------------------------------------------------------------------

\* A path is a string whose scheme and host part, and whose bucket name,
\* are one symbol each; the object path is spelled character by character.
GsScheme == "gs://"
HttpPrefix == "https://firebasestorage.googleapis.com/v0/b/"
AppspotBuckets == {"app.appspot.com"}
Buckets == AppspotBuckets \cup {"bucket"}

\* The auth argument: none, a firebase-auth-lite instance, or an object
\* without authorizeRequest.
Auth == [kind |-> "auth", val |-> <<"authorizeRequest">>]
BareAuth == [kind |-> "auth", val |-> <<>>]
Auths == {Undefined, Auth, BareAuth}

\* authorizedFetch: `this.auth && this.auth.authorizeRequest`
hasAuthorizeRequest(auth) == auth.kind = "auth" /\ auth.val # <<>>

AuthorizedFetchFn == [kind |-> "function", val |-> <<"authorizedFetch">>]

\* path.endsWith('.appspot.com')
endsWithAppspot(path) == path # <<>> /\ path[Len(path)] \in AppspotBuckets

\* The first place of a sequence where one of the symbols stands, or one
\* past its end.
RECURSIVE FirstOf(_, _, _)
FirstOf(chars, symbols, i) ==
    IF i > Len(chars) \/ chars[i] \in symbols THEN i
    ELSE FirstOf(chars, symbols, i + 1)

NoMatch == [found |-> FALSE, bucket |-> <<>>, objectPath |-> Undefined]

\* gsRegex.exec(path): /gs:\/\/([\w-.]+)\/?(.+)?/i
gsRegexExec(path) ==
    IF Len(path) >= 2 /\ path[1] = GsScheme /\ path[2] \in Buckets
    THEN LET rest == SubSeq(path, 3, Len(path))
             after == IF rest # <<>> /\ Head(rest) = "/" THEN Tail(rest) ELSE rest
         IN  [found |-> TRUE, bucket |-> <<path[2]>>,
              objectPath |-> IF after = <<>> THEN Undefined ELSE Str(after)]
    ELSE NoMatch

\* httpRegex.exec(path):
\* /https?:\/\/firebasestorage\.googleapis\.com\/v\w+\/b\/([\w-.]+)\/?(?:o\/?([^?#]+)?)?/i
httpRegexExec(path) ==
    IF Len(path) >= 2 /\ path[1] = HttpPrefix /\ path[2] \in Buckets
    THEN LET rest == SubSeq(path, 3, Len(path))
             afterSlash == IF rest # <<>> /\ Head(rest) = "/" THEN Tail(rest) ELSE rest
             hasO == afterSlash # <<>> /\ Head(afterSlash) = "o"
             afterO == IF hasO THEN Tail(afterSlash) ELSE <<>>
             name == IF afterO # <<>> /\ Head(afterO) = "/" THEN Tail(afterO) ELSE afterO
             taken == SubSeq(name, 1, FirstOf(name, {"?", "#"}, 1) - 1)
         IN  [found |-> TRUE, bucket |-> <<path[2]>>,
              objectPath |-> IF taken = <<>> THEN Undefined ELSE Str(taken)]
    ELSE NoMatch

\* The character a %XX escape stands for.
decodeEscape(escape) ==
    CASE escape = <<"%", "2", "F">> -> <<"/">>
      [] escape = <<"%", "3", "F">> -> <<"?">>
      [] escape = <<"%", "2", "6">> -> <<"&">>
      [] escape = <<"%", "3", "D">> -> <<"=">>
      [] escape = <<"%", "2", "0">> -> <<" ">>
      [] escape = <<"%", "2", "5">> -> <<"%">>
      [] escape = <<"%", "3", "A">> -> <<":">>
      [] OTHER -> <<>>

\* decodeURIComponent throws URIError on a % that begins no escape
RECURSIVE malformedURI(_)
malformedURI(chars) ==
    IF chars = <<>> THEN FALSE
    ELSE IF Head(chars) = "%"
         THEN \/ Len(chars) < 3
              \/ decodeEscape(SubSeq(chars, 1, 3)) = <<>>
              \/ malformedURI(SubSeq(chars, 4, Len(chars)))
         ELSE malformedURI(Tail(chars))

RECURSIVE decodeChars(_)
decodeChars(chars) ==
    IF chars = <<>> THEN <<>>
    ELSE IF Head(chars) = "%" /\ Len(chars) >= 3
         THEN decodeEscape(SubSeq(chars, 1, 3)) \o decodeChars(SubSeq(chars, 4, Len(chars)))
         ELSE <<Head(chars)>> \o decodeChars(Tail(chars))

\* `objectPath || ''`
orEmpty(v) == IF v.kind = "undefined" \/ v = Str(<<>>) THEN <<>> ELSE v.val

\* An object of class Reference on which the constructor has set nothing,
\* and the error the constructor threw, if it threw.
BlankReference ==
    [threw |-> "", bucket |-> Undefined, objectPath |-> Undefined,
     auth |-> Undefined, fetch |-> Undefined]

\* constructor(path, auth)
Reference(path, auth) ==
    IF endsWithAppspot(path)
    THEN [BlankReference EXCEPT !.bucket = Str(path), !.objectPath = Str(<<>>)]
    ELSE LET isGSPath == path # <<>> /\ Head(path) = GsScheme
             match == IF isGSPath THEN gsRegexExec(path) ELSE httpRegexExec(path)
         IN  IF ~match.found
             THEN [BlankReference EXCEPT !.threw = "TypeError"]
             ELSE IF ~isGSPath /\ malformedURI(orEmpty(match.objectPath))
             THEN [BlankReference EXCEPT !.threw = "URIError", !.bucket = Str(match.bucket)]
             ELSE [threw |-> "",
                   bucket |-> Str(match.bucket),
                   objectPath |-> Str(IF isGSPath THEN orEmpty(match.objectPath)
                                      ELSE decodeChars(orEmpty(match.objectPath))),
                   auth |-> auth,
                   fetch |-> AuthorizedFetchFn]

\* get isRoot()
isRoot(ref) == ref.objectPath = Str(<<>>) \/ ref.objectPath.kind = "undefined"

\* What a getter or a method of Reference does: the error it throws, the
\* Reference it returns, the requests it sends.
Throws(error) == [threw |-> error, value |-> BlankReference, requests |-> <<>>]
Returns(ref) == [threw |-> "", value |-> ref, requests |-> <<>>]
Sends(request) == [threw |-> "", value |-> BlankReference, requests |-> <<request>>]

\* get root()
root(ref) ==
    IF isRoot(ref) THEN Returns(ref)
    ELSE Returns(Reference(<<GsScheme>> \o ref.bucket.val \o <<"/">>, Undefined))

BaseApiURL == "https://firebasestorage.googleapis.com/v0/"

\* get URIPath(), after the test of isRoot
URIPath(ref) ==
    <<"/b/">> \o ref.bucket.val \o <<"/o/">> \o encodeURIComponent(ref.objectPath)

\* this.fetch(resource, init) on a Reference: a TypeError when the
\* constructor has not set fetch, else authorizedFetch with the reference
\* as `this`
referenceFetch(ref, method, url) ==
    IF ref.fetch.kind = "undefined" THEN Throws("TypeError")
    ELSE Sends(authorizedFetch([method |-> method, url |-> url, authorized |-> FALSE],
                               hasAuthorizeRequest(ref.auth)))

RootURIPathError == "Can't get URI path for root"

\* delete(), getMetadata() and updateMetadata(newMetadata): the argument
\* baseApiURL + this.URIPath is evaluated before the call
onObject(ref, method) ==
    IF isRoot(ref) THEN Throws(RootURIPathError)
    ELSE referenceFetch(ref, method, <<BaseApiURL>> \o Tail(URIPath(ref)))

\* list()
list(ref) ==
    LET query == objectToQuery(Obj(<<<<"prefix", ref.objectPath>>,
                                     <<"delimiter", Str(<<"/">>)>>>>))
    IN  referenceFetch(ref, "GET", <<BaseApiURL, "b/">> \o ref.bucket.val \o <<"/o">> \o query)

\* put(blob, metadata) and start() of the task it returns, up to the first
\* request: the task is given this.auth
put(ref, size) ==
    Sends(authorizedFetch(IF UseSimpleUpload(size)
                          THEN simpleUploadRequest("first", size)
                          ELSE startResumableUploadRequest("first", size),
                          hasAuthorizeRequest(ref.auth)))

RequestMethods == {"delete", "list", "getMetadata", "updateMetadata", "put"}

referenceMethod(ref, method, size) ==
    CASE method = "delete" -> onObject(ref, "DELETE")
      [] method = "getMetadata" -> onObject(ref, "GET")
      [] method = "updateMetadata" -> onObject(ref, "PATCH")
      [] method = "list" -> list(ref)
      [] method = "put" -> put(ref, size)

\* ------------------------------------------------------------------------
\* Calls of utils.js, of the UploadTask constructor and of Reference
\* ------------------------------------------------------------------------

\* The strings of at most n characters
Strings(alphabet, n) == UNION {[1..k -> alphabet] : k \in 0..n}

\* The property lists of at most n properties, no name twice
PropLists(keys, values, n) ==
    {props \in UNION {[1..k -> keys \X values] : k \in 0..n} :
        \A i, j \in DOMAIN props : props[i][1] = props[j][1] => i = j}

QueryChars == {"a", "/", "&"}
QueryKeys == {"name", "prefix", "delimiter"}
QueryValues == {Undefined, Null} \cup {Str(chars) : chars \in Strings(QueryChars, MaxChars)}
QueryObjects == {Undefined} \cup {Obj(props) : props \in PropLists(QueryKeys, QueryValues, MaxProps)}

MetaKeys == {"name", "contentType", "cacheControl"}
MetaValues == {Undefined, Str(<<"x">>)}
Metadatas == {Undefined} \cup {Obj(props) : props \in PropLists(MetaKeys, MetaValues, MaxProps)}
ObjectNames == {<<>>, <<"a">>, <<"/", "a">>, <<"/", "/", "a">>}
BlobTypes == {Str(<<>>), Str(<<"t">>)}

PathChars == {"a", "/", " "}
ObjectPaths == Strings(PathChars, MaxChars)

\* The path forms the constructor accepts, a URL with a stray %, and a
\* string that is none of them.
Paths ==
    {<<b>> : b \in AppspotBuckets}
        \cup {<<GsScheme, b, "/">> \o chars : b \in Buckets, chars \in ObjectPaths}
        \cup {<<HttpPrefix, b, "/", "o", "/">> \o encodeChars(chars) :
                 b \in Buckets, chars \in ObjectPaths}
        \cup {<<HttpPrefix, "bucket", "/", "o", "/", "%">>, <<"a">>}

PutSizes == {0, SimpleUploadLimit}

Called(fn, arg, result) ==
    /\ applied' = [fn |-> fn, arg |-> arg, result |-> result]
    /\ UNCHANGED <<blobSize, hasAuth, uploadURL, granularity, offset, pending,
                   promise, settles, lastReply, calls, tasks, iter>>

objectToQueryCalled ==
    /\ applied = NoCall
    /\ \E obj \in QueryObjects : Called("objectToQuery", obj, objectToQuery(obj))

newUploadTask ==
    /\ applied = NoCall
    /\ \E metadata \in Metadatas, name \in ObjectNames, type \in BlobTypes :
           Called("UploadTask", [metadata |-> metadata, name |-> name, type |-> type],
                  sentMetadata(metadata, name, type))

referenceCalled ==
    /\ applied = NoCall
    /\ \E path \in Paths, auth \in Auths, method \in RequestMethods, size \in PutSizes :
           LET ref == Reference(path, auth)
           IN  /\ ref.threw = ""
               /\ method # "put" => size = 0
               /\ Called(method, [path |-> path, auth |-> auth, this |-> ref],
                         referenceMethod(ref, method, size))

referenceThrows ==
    /\ applied = NoCall
    /\ \E path \in Paths, auth \in Auths :
           LET ref == Reference(path, auth)
           IN  /\ ref.threw # ""
               /\ Called("Reference", [path |-> path, auth |-> auth, this |-> ref],
                         Throws(ref.threw))

rootRead ==
    /\ applied = NoCall
    /\ \E path \in Paths, auth \in Auths :
           LET ref == Reference(path, auth)
           IN  /\ ref.threw = ""
               /\ Called("root", [path |-> path, auth |-> auth, this |-> ref], root(ref))

InitCalls ==
    /\ InitOthers
    /\ iter = NewIterable(0, [c \in Consumers |-> "lazy"])
    /\ applied = NoCall

NextCalls ==
    \/ objectToQueryCalled
    \/ newUploadTask
    \/ referenceCalled
    \/ referenceThrows
    \/ rootRead

SpecCalls == InitCalls /\ [][NextCalls]_vars

\* ------------------------------------------------------------------------
\* C27
\* ------------------------------------------------------------------------

\* C27: whatever metadata the caller supplies, the metadata the task sends
\* has name equal to the destination name with one leading slash removed
\* and contentType equal to the type of the blob, and every other key of the
\* caller reads as the caller's value.
C27_NameAndTypeFixed ==
    applied.fn = "UploadTask" =>
        LET name == applied.arg.name
            sent == applied.result
            sentName == Get(sent, "name")
            callerKeys == IF applied.arg.metadata.kind = "undefined" THEN {}
                          ELSE {prop[1] : prop \in {applied.arg.metadata.val[i] :
                                                     i \in DOMAIN applied.arg.metadata.val}}
        IN  /\ sentName.kind = "str"
            /\ \/ name = <<"/">> \o sentName.val
               \/ name = sentName.val /\ (name = <<>> \/ Head(name) # "/")
            /\ Get(sent, "contentType") = applied.arg.type
            /\ \A key \in callerKeys \ {"name", "contentType"} :
                  Get(sent, key) = Get(applied.arg.metadata, key)
            /\ \A i \in DOMAIN sent.val :
                  sent.val[i][1] \in callerKeys \cup {"name", "contentType"}

\* A caller's metadata with a name, a contentType and a cacheControl of its
\* own, sent for a destination name that begins with a slash.
C27_Witness ==
    /\ applied.fn = "UploadTask"
    /\ applied.arg.metadata =
          Obj(<<<<"name", Str(<<"x">>)>>, <<"cacheControl", Str(<<"x">>)>>>>)
    /\ applied.arg.name = <<"/", "a">>
    /\ applied.arg.type = Str(<<"t">>)
    /\ applied.result =
          Obj(<<<<"name", Str(<<"a">>)>>, <<"cacheControl", Str(<<"x">>)>>,
                <<"contentType", Str(<<"t">>)>>>>)

\* ------------------------------------------------------------------------
\* C28
\* ------------------------------------------------------------------------

\* The pairs with & between them.
RECURSIVE Between(_)
Between(pairs) ==
    IF Len(pairs) = 1 THEN pairs[1]
    ELSE Between(SubSeq(pairs, 1, Len(pairs) - 1)) \o <<"&">> \o pairs[Len(pairs)]

\* C28: objectToQuery returns the empty string for no argument, an empty
\* object or an object whose values are all undefined; otherwise it returns
\* ? followed by one key=value pair, the value percent-encoded, for every
\* property whose value is not undefined, in property order, with & between
\* the pairs.
C28_QueryOfDefinedProps ==
    applied.fn = "objectToQuery" =>
        LET props == IF applied.arg.kind = "undefined" THEN <<>> ELSE applied.arg.val
            kept == SelectSeq(props, LAMBDA prop : prop[2] # Undefined)
            pairs == [i \in DOMAIN kept |->
                         <<kept[i][1], "=">> \o encodeURIComponent(kept[i][2])]
        IN  IF kept = <<>>
            THEN applied.result = <<>>
            ELSE applied.result = <<"?">> \o Between(pairs)

\* An undefined property is passed over, and a null and an empty string are
\* written.
C28_Witness ==
    /\ applied.fn = "objectToQuery"
    /\ applied.arg = Obj(<<<<"name", Null>>, <<"prefix", Str(<<>>)>>>>)
    /\ applied.result = <<"?", "name", "=", "n", "u", "l", "l", "&", "prefix", "=">>

\* ------------------------------------------------------------------------
\* C29
\* ------------------------------------------------------------------------

\* C29: a Reference constructed with an auth object, whatever the form of
\* its path, passes every request it issues (delete, list, getMetadata,
\* updateMetadata, and the requests of the task put returns) to
\* auth.authorizeRequest.
C29_EveryRequestAuthorized ==
    (applied.fn \in RequestMethods /\ applied.arg.auth = Auth) =>
        \A i \in DOMAIN applied.result.requests :
            applied.result.requests[i].authorized

\* ------------------------------------------------------------------------
\* C30
\* ------------------------------------------------------------------------

\* C30: reading root of a Reference that is the root of its bucket throws.
C30_RootOfRootThrows ==
    (applied.fn = "root" /\ isRoot(applied.arg.this)) => applied.result.threw # ""

\* ------------------------------------------------------------------------
\* C31
\* ------------------------------------------------------------------------

\* C31: a blob of 5,000,000 bytes sent with granularity 262,144 to a server
\* that answers ok to every request and final to the finalize request (and
\* to no other) takes 21 requests, the session start and 20 chunk requests;
\* the last chunk request carries the offset 4,980,736, a slice of 19,264
\* bytes and the command 'upload, finalize'.
C31_TwentyOneRequests ==
    (blobSize = 5000000 /\ granularity = Num(262144)
        /\ SessionComplete /\ AllOk /\ FinalExactlyOnFinalize) =>
        /\ Len(calls) = 21
        /\ calls[1].req.kind = "start"
        /\ ChunkRequests = 2..21
        /\ calls[21].req.offset = Num(4980736)
        /\ calls[21].req.size = Num(19264)
        /\ calls[21].req.command = "upload, finalize"
        /\ \A i \in 2..20 :
              calls[i].req.command = "upload" /\ calls[i].req.size = Num(262144)

\* The session of that blob is over and the finalize request was its
\* twenty-first request.
C31_Witness ==
    /\ blobSize = 5000000
    /\ granularity = Num(262144)
    /\ SessionComplete
    /\ AllOk
    /\ FinalExactlyOnFinalize
    /\ promise["first"].state = "fulfilled"
    /\ Len(calls) = 21
    /\ calls[21].replied
    /\ calls[21].reply.status = "final"

\* ------------------------------------------------------------------------
\* The iterable task and the answers of its server
\* ------------------------------------------------------------------------

\* A chunk response arrives at the iterable task, as in nextResponse, and
\* the answer of the server is kept in lastReply
nextResponseNoted ==
    /\ iter.fetching.kind = "chunk"
    /\ iter.jobs = <<>>
    /\ \E response \in ChunkReplies \cup {NetworkError} :
          /\ iter' = IF response.net = "error"
                     THEN RejectChunk([iter EXCEPT !.fetching = NoFetch], iter.chunk)
                     ELSE nextThen(iter, response)
          /\ lastReply' = [lastReply EXCEPT !["first"] = response]
    /\ UNCHANGED <<blobSize, hasAuth, uploadURL, granularity, offset,
                   pending, promise, settles, calls, tasks, applied>>

NextIterReplies ==
    \/ initResponse
    \/ nextResponseNoted
    \/ startResumes

SpecIterReplies == InitThenable /\ [][NextIterReplies]_vars

\* ------------------------------------------------------------------------
\* C32
\* ------------------------------------------------------------------------

\* C32: the iterable task resolves its result only on a chunk response
\* whose x-goog-upload-status is final: after an ok chunk response with
\* another status the internal resolve has not been called and the loop of
\* start() has not ended.
C32_ResolvesOnlyOnFinal ==
    (lastReply["first"].net = "response" /\ lastReply["first"].ok
        /\ lastReply["first"].status # "final") =>
        (iter.resCalls = 0 /\ iter.loop # "done")

\* ------------------------------------------------------------------------
\* C33
\* ------------------------------------------------------------------------

\* The first run was fulfilled on the response to a request that carried
\* 'upload, finalize', and the log holds all its requests.
CompletedOnFinalize ==
    /\ promise["first"].state = "fulfilled"
    /\ LogComplete
    /\ Len(calls) > 0
    /\ calls[Len(calls)].req.kind = "chunk"
    /\ calls[Len(calls)].req.command = "upload, finalize"

\* The bytes of the slices of all chunk requests.
BytesSent == SentBefore(Len(calls) + 1)

\* C33: in a resumable upload with a granularity g > 0 that completes on
\* the response to its finalize request, every slice begins where the one
\* before it ended, the first at 0, the slices make up blob.size bytes, a
\* slice sent with 'upload' has exactly g bytes and a slice sent with
\* 'upload, finalize' has fewer than g bytes and no less than none.
C33_SlicesCoverBlobOnce ==
    (CompletedOnFinalize /\ ValidGranularity) =>
        /\ \A i \in ChunkRequests :
              /\ calls[i].req.offset = SentBefore(i)
              /\ IsNum(calls[i].req.size)
              /\ calls[i].req.size.val >= 0
              /\ calls[i].req.command = "upload" =>
                    calls[i].req.size = granularity
              /\ calls[i].req.command = "upload, finalize" =>
                    calls[i].req.size.val < granularity.val
        /\ BytesSent = Num(blobSize)

\* A blob of a whole number of slices: ten slices of g bytes and a finalize
\* request that carries no byte.
C33_Witness ==
    /\ CompletedOnFinalize
    /\ blobSize = FirstBigUnits * ChunkUnit
    /\ granularity = Num(2 * ChunkUnit)
    /\ Cardinality(ChunkRequests) = (FirstBigUnits \div 2) + 1
    /\ calls[Len(calls)].req.size = Num(0)
    /\ calls[Len(calls)].req.offset = Num(blobSize)
    /\ calls[Len(calls) - 1].req.size = granularity

\* ------------------------------------------------------------------------
\* C34
\* ------------------------------------------------------------------------

\* The blob goes the resumable way.
Resumable == ~UseSimpleUpload(blobSize)

\* The reply that has just arrived is no ok response.
BadReply ==
    \/ lastReply["first"].net = "error"
    \/ lastReply["first"].net = "response" /\ ~lastReply["first"].ok

\* The reply that has just arrived carries the status final.
FinalReply ==
    lastReply["first"].net = "response" /\ lastReply["first"].status = "final"

\* A request that carried 'upload, finalize' was answered with another
\* status, or the final response carried no JSON document.
FinalizeRefused ==
    \/ \E i \in ChunkRequests :
          /\ Answered(i)
          /\ calls[i].req.command = "upload, finalize"
          /\ calls[i].reply.status # "final"
    \/ FinalReply /\ ~JSONParse(lastReply["first"].body).valid

\* The request in flight is a finalize request without a byte at the end
\* of the blob.
ZeroFinalizeInFlight ==
    /\ pending["first"].req.kind = "chunk"
    /\ pending["first"].req.command = "upload, finalize"
    /\ pending["first"].req.size = Num(0)
    /\ pending["first"].req.offset = Num(blobSize)

\* C34: with a granularity g > 0, a transport that answers every request
\* and a server that answers ok to every request, (1) if the server answers
\* final, with the metadata document, to the finalize request, a resumable
\* start() is eventually fulfilled, and it has sent at most
\* floor(blob.size / g) + 1 chunk requests; (2) if the server never answers
\* final, the promise never settles and from some point on the task always
\* has a finalize request without a byte at offset blob.size in flight.
C34_ResolvesOrKeepsFinalizing ==
    /\ []((ValidGranularity /\ AllOk /\ ~FinalizeRefused) =>
             Cardinality(ChunkRequests) <= (blobSize \div granularity.val) + 1)
    /\ <>(\/ promise["first"].state = "fulfilled"
          \/ ~Resumable \/ InvalidGranularity \/ BadReply \/ FinalizeRefused)
    /\ []((Resumable /\ Settled("first")) => (BadReply \/ FinalReply))
    /\ \/ <>(~Resumable \/ InvalidGranularity \/ BadReply \/ FinalReply)
       \/ <>[]ZeroFinalizeInFlight

\* The second finalize request of a session whose server answers ok and
\* never final is in flight.
C34_Witness ==
    /\ ZeroFinalizeInFlight
    /\ AllOk
    /\ promise["first"].state = "pending"
    /\ blobSize = SimpleUploadLimit
    /\ granularity = Num(ChunkUnit)
    /\ Cardinality(ChunkRequests) = FirstBigUnits + 2
    /\ \A i \in ChunkRequests : Answered(i) => calls[i].reply.status = "active"

\* ------------------------------------------------------------------------
\* src/index.js: the earlier UploadTask
\* ------------------------------------------------------------------------
\* The fields are those of the task above.  The constructor sets _promise,
\* _resolve, _reject, blob and metadata (lines 52-66); its lines 56-57 read
\* this.promise, which no line sets.  The task followed here has the fields
\* as lines 52-55 and 60-66 set them.  promise is this._promise, settles
\* counts the calls of _resolve and _reject.

\* The chunk responses of one task are followed up to this many.
IndexRounds == 3

\* A number read from a text is kept up to this value; a larger one is kept
\* as this value (it is larger than every blob and every granularity).
TextLimit == 1073741824

\* A text: a sequence of header texts, written one after the other.
Text(parts) == [kind |-> "text", val |-> parts]

\* headers.get(name): null for an absent header, else its text
HeadersGet(h) == IF h.kind = "absent" THEN Null ELSE Text(<<h>>)

RECURSIVE Digits(_)
Digits(n) == IF n < 10 THEN 1 ELSE 1 + Digits(n \div 10)

RECURSIVE Pow10(_)
Pow10(d) == IF d = 0 THEN 1 ELSE 10 * Pow10(d - 1)

\* The number a text of decimal numerals stands for.
RECURSIVE DecimalValue(_, _)
DecimalValue(parts, acc) ==
    IF parts = <<>> THEN Min(acc, TextLimit)
    ELSE LET scale == Pow10(Digits(Head(parts).n))
         IN  IF acc >= TextLimit \div scale
             THEN TextLimit
             ELSE DecimalValue(Tail(parts), acc * scale + Head(parts).n)

\* The conversion to a number that -, < and > apply to their operands
ToNumber(v) ==
    CASE v.kind = "num" -> v
      [] v.kind = "null" -> Num(0)
      [] v.kind = "text" ->
            IF \E i \in DOMAIN v.val : v.val[i].kind # "number"
            THEN NaN
            ELSE Num(DecimalValue(v.val, 0))
      [] OTHER -> NaN

\* The text + writes for an operand: the numeral of a number, a word for
\* null, undefined and NaN
TextOf(v) ==
    CASE v.kind = "text" -> v.val
      [] v.kind = "num" -> <<NumberHeader(v.val)>>
      [] OTHER -> <<TextHeader>>

\* a + b: concatenation as soon as one side is a text
JsPlus(a, b) ==
    IF a.kind = "text" \/ b.kind = "text"
    THEN Text(TextOf(a) \o TextOf(b))
    ELSE JsAdd(ToNumber(a), ToNumber(b))

\* resumeUpload(): `blob.slice(offset, granularity)`
indexRemainingBlob(size, from, to) ==
    BlobSlice(size, ToNumber(from), ToNumber(to))

\* resumeUpload(): `remainingBlob.size < granularity`
indexIsLastRequest(chunk, unit) == JsLess(chunk, ToNumber(unit))

\* resumeUpload(): the chunk request
indexResumeUploadRequest(run, size, url, unit, at) ==
    LET chunk == indexRemainingBlob(size, at, unit)
    IN  [kind |-> "chunk", run |-> run, url |-> url, protocol |-> "",
         command |-> UploadCommand(indexIsLastRequest(chunk, unit)),
         offset |-> at, size |-> chunk, authorized |-> FALSE]

\* resumeUpload(): the handler of a chunk response: _resolve(response.json())
\* on the status final, and in every case `this.offset += granularity` and
\* resumeUpload() again
indexResumeUploadThen(response, at, unit) ==
    LET resolved == IF response.status = "final"
                    THEN ReturnJSON(response, at)
                    ELSE Outcome("none", NoValue, at, FALSE)
    IN  Outcome(resolved.settle, resolved.value, JsPlus(at, unit), TRUE)

\* simpleUpload(): `.then(this._resolve)`: _promise is fulfilled with the
\* response
indexSimpleUploadThen(response) ==
    Outcome("fulfilled", [tag |-> "response", json |-> {}, text |-> response.body],
            Undefined, FALSE)

\* start(), up to the first await
indexStart ==
    /\ promise["first"].state = "none"
    /\ LET request == IF UseSimpleUpload(blobSize)
                      THEN simpleUploadRequest("first", blobSize)
                      ELSE startResumableUploadRequest("first", blobSize)
       IN  /\ pending' = [pending EXCEPT !["first"] = InFlight(calls, request)]
           /\ calls' = LogRequest(calls, request)
    /\ promise' = [promise EXCEPT !["first"] = PendingPromise]
    /\ UNCHANGED <<blobSize, hasAuth, uploadURL, granularity, offset, settles,
                   lastReply, tasks, iter, applied>>

\* simpleUpload(): the response to the multipart request arrives
indexSimpleUploadResponse ==
    /\ pending["first"].req.kind = "simple"
    /\ \E response \in SimpleReplies \cup {NetworkError} :
          LET out == IF response.net = "error"
                     THEN fetchRejected(offset)
                     ELSE indexSimpleUploadThen(response)
          IN  /\ promise' = [promise EXCEPT !["first"] = Settle(@, out)]
              /\ settles' = [settles EXCEPT !["first"] = @ + 1]
              /\ lastReply' = [lastReply EXCEPT !["first"] = response]
              /\ calls' = LogReply(calls, pending["first"].at, response)
    /\ pending' = [pending EXCEPT !["first"] = NoPending]
    /\ UNCHANGED <<blobSize, hasAuth, uploadURL, granularity, offset, tasks, iter, applied>>

\* start(): the response to the session start arrives; the headers are
\* saved as they read and resumeUpload() sends the first chunk.  When the
\* fetch rejects, _reject is called and start() throws on the headers it
\* has not got
indexSessionResponse ==
    /\ pending["first"].req.kind = "start"
    /\ \E response \in SessionReplies \cup {NetworkError} :
          /\ lastReply' = [lastReply EXCEPT !["first"] = response]
          /\ IF response.net = "error"
             THEN /\ promise' = [promise EXCEPT !["first"] = Settle(@, fetchRejected(offset))]
                  /\ settles' = [settles EXCEPT !["first"] = @ + 1]
                  /\ pending' = [pending EXCEPT !["first"] = NoPending]
                  /\ calls' = LogReply(calls, pending["first"].at, response)
                  /\ UNCHANGED <<uploadURL, granularity, offset>>
             ELSE LET read == HeadersGet(response.granularity)
                      request == indexResumeUploadRequest("first", blobSize, response.url,
                                                          read, Num(0))
                      log == LogReply(calls, pending["first"].at, response)
                  IN  /\ uploadURL' = response.url
                      /\ granularity' = read
                      /\ offset' = Num(0)
                      /\ pending' = [pending EXCEPT !["first"] = InFlight(log, request)]
                      /\ calls' = LogRequest(log, request)
                      /\ UNCHANGED <<promise, settles>>
    /\ UNCHANGED <<blobSize, hasAuth, tasks, iter, applied>>

\* resumeUpload(): the response to a chunk request arrives
indexResumeUploadResponse ==
    /\ pending["first"].req.kind = "chunk"
    /\ Cardinality(ChunkRequests) <= IndexRounds
    /\ \E response \in ChunkReplies \cup {NetworkError} :
          LET out == IF response.net = "error"
                     THEN fetchRejected(offset)
                     ELSE indexResumeUploadThen(response, offset, granularity)
              request == indexResumeUploadRequest("first", blobSize, uploadURL,
                                                  granularity, out.offset)
              log == LogReply(calls, pending["first"].at, response)
          IN  /\ lastReply' = [lastReply EXCEPT !["first"] = response]
              /\ offset' = out.offset
              /\ promise' = [promise EXCEPT !["first"] = Settle(@, out)]
              /\ settles' = [settles EXCEPT !["first"] = IF out.settle = "none" THEN @ ELSE @ + 1]
              /\ IF out.again
                 THEN /\ pending' = [pending EXCEPT !["first"] = InFlight(log, request)]
                      /\ calls' = LogRequest(log, request)
                 ELSE /\ pending' = [pending EXCEPT !["first"] = NoPending]
                      /\ calls' = log
    /\ UNCHANGED <<blobSize, hasAuth, uploadURL, granularity, tasks, iter, applied>>

InitIndex ==
    /\ Init
    /\ hasAuth = FALSE

NextIndex ==
    \/ indexStart
    \/ indexSimpleUploadResponse
    \/ indexSessionResponse
    \/ indexResumeUploadResponse

SpecIndex == InitIndex /\ [][NextIndex]_vars

\* ------------------------------------------------------------------------
\* C35
\* ------------------------------------------------------------------------

gsPath(ref) == <<GsScheme>> \o ref.bucket.val \o <<"/">> \o ref.objectPath.val

\* A symbol that ends with a slash.
IsSlash(symbol) == symbol \in {"/", GsScheme}

Front(s) == SubSeq(s, 1, Len(s) - 1)

\* The string without the run of [^/] at its end.
RECURSIVE dropRun(_)
dropRun(s) ==
    IF s = <<>> \/ IsSlash(s[Len(s)]) THEN s ELSE dropRun(Front(s))

\* s.replace(/([^/]+)\/?$/, ''): the last run of [^/], with the slash after
\* it, is cut off the end; a string that ends with two slashes stays
replaceLastSegment(s) ==
    LET body == IF s # <<>> /\ s[Len(s)] = "/" THEN Front(s) ELSE s
    IN  IF body = <<>> \/ IsSlash(body[Len(body)]) THEN s ELSE dropRun(body)

\* s.replace(/\/?$/, path): path takes the place of the slash at the end,
\* or is put at the end
replaceTrailingSlash(s, path) ==
    IF s # <<>> /\ s[Len(s)] = "/" THEN Front(s) \o path ELSE s \o path

RootParentError == "Can't get parent of root"

\* get parent()
parent(ref) ==
    IF isRoot(ref) THEN Throws(RootParentError)
    ELSE Returns(Reference(replaceLastSegment(gsPath(ref)), Undefined))

\* child(path)
child(ref, path) ==
    LET slashed == IF path # <<>> /\ Head(path) = "/" THEN path ELSE <<"/">> \o path
    IN  Returns(Reference(replaceTrailingSlash(gsPath(ref), slashed), Undefined))

\* The paths handed to child().
ChildPaths == Strings(PathChars, MaxChars)

\* A step from a Reference to another: root, parent or child(path).
Steps ==
    {[fn |-> "root", path |-> <<>>], [fn |-> "parent", path |-> <<>>]}
        \cup {[fn |-> "child", path |-> path] : path \in ChildPaths}

derive(ref, step) ==
    CASE step.fn = "root" -> root(ref)
      [] step.fn = "parent" -> parent(ref)
      [] step.fn = "child" -> child(ref, step.path)

\* parent is read
parentRead ==
    /\ applied = NoCall
    /\ \E path \in Paths, auth \in Auths :
           LET ref == Reference(path, auth)
           IN  /\ ref.threw = ""
               /\ Called("parent", [path |-> path, auth |-> auth, this |-> ref], parent(ref))

\* child(path) is called
childCalled ==
    /\ applied = NoCall
    /\ \E path \in Paths, auth \in Auths, to \in ChildPaths :
           LET ref == Reference(path, auth)
           IN  /\ ref.threw = ""
               /\ Called("child", [path |-> path, auth |-> auth, this |-> ref, to |-> to],
                         child(ref, to))

\* root, parent or child(path) of the Reference that child(path) returned
childThen ==
    /\ applied.fn = "child"
    /\ applied.result.threw = ""
    /\ applied.result.value.threw = ""
    /\ \E step \in Steps :
           Called("chain", [path |-> applied.arg.path, auth |-> applied.arg.auth,
                            this |-> applied.arg.this, to |-> applied.arg.to,
                            then |-> step],
                  derive(applied.result.value, step))

NextReferences ==
    \/ referenceCalled
    \/ referenceThrows
    \/ rootRead
    \/ parentRead
    \/ childCalled
    \/ childThen

SpecReferences == InitCalls /\ [][NextReferences]_vars

\* ------------------------------------------------------------------------
\* C36
\* ------------------------------------------------------------------------

\* The requests of all methods of a Reference are authorized.
AllAuthorized(ref) ==
    \A method \in RequestMethods :
        LET did == referenceMethod(ref, method, 0)
        IN  \A i \in DOMAIN did.requests : did.requests[i].authorized

\* C36: a Reference obtained through root, parent or child(), or a chain of
\* them, from a Reference that has an auth object has the same auth object,
\* and its requests are authorized.
C36_DerivedKeepsAuth ==
    (applied.fn \in {"root", "parent", "child", "chain"}
        /\ applied.arg.this.auth = Auth
        /\ applied.result.threw = ""
        /\ applied.result.value.threw = "") =>
        /\ applied.result.value.auth = Auth
        /\ AllAuthorized(applied.result.value)

\* ------------------------------------------------------------------------
\* C37
\* ------------------------------------------------------------------------

\* child(p).parent was read, p a segment that is not empty and has no slash.
ChildThenParent ==
    /\ applied.fn = "chain"
    /\ applied.arg.then.fn = "parent"
    /\ applied.arg.to # <<>>
    /\ \A i \in DOMAIN applied.arg.to : applied.arg.to[i] # "/"

\* C37: r.child(p).parent has the bucket and the objectPath of r when r is
\* no root, and is a root of the bucket of r when r is one.
C37_ChildParentRoundTrip ==
    ChildThenParent =>
        /\ applied.result.threw = ""
        /\ applied.result.value.threw = ""
        /\ applied.result.value.bucket = applied.arg.this.bucket
        /\ IF isRoot(applied.arg.this)
           THEN isRoot(applied.result.value)
           ELSE applied.result.value.objectPath = applied.arg.this.objectPath

====
